---- MODULE Spec2Model ----
(***************************************************************************)
(* Matter query / materialization engine of the matter-management backend: *)
(* the EAV value store, the status-transition log, the transactional       *)
(* update path (MatterRepo.updateMatterField), the SQL-computed list path  *)
(* (MatterRepo.getMatters) and the detail path (MatterService.getMatterById*)
(* with CycleTimeService).                                                 *)
(*                                                                         *)
(* Encoding.  A nullable value (SQL NULL / JS null) is a sequence of       *)
(* length 0 or 1: Null is <<>>, a present value v is <<v>>.  Text is a     *)
(* sequence of character codes, so the empty string <<>> wrapped as        *)
(* <<<<>>>> differs from Null.  Timestamps are clock ticks; one tick is    *)
(* TickMs milliseconds.                                                    *)
(***************************************************************************)
EXTENDS Integers, Sequences, FiniteSets, TLC

Null == <<>>

Some(v) == <<v>>

IsNull(x) == x = <<>>

Val(x) == x[1]

(***************************************************************************)
(* Bounds of the model.                                                    *)
(***************************************************************************)
MaxTime == 2

MaxUpdates == 3

TickMs == 28800000

(***************************************************************************)
(* Program constants.                                                      *)
(***************************************************************************)
SLA_THRESHOLD_HOURS == 8

slaThresholdMs == SLA_THRESHOLD_HOURS * 60 * 60 * 1000

(***************************************************************************)
(* Catalog tables (seeded, never written by this core).                    *)
(***************************************************************************)
Matters == {"m1", "m2", "m3"}

Clients == {"c1", "c2"}

\* character codes of the text alphabet: 1 = "a", 2 = "b", 3 = "c"
TextA == <<1>>

TextB == <<2>>

TextEmpty == <<>>

\* the seeded ticketing_fields table: id -> name, field_type, deleted_at
SeedFields == [
    f_subject  |-> [name |-> "subject",        field_type |-> "text",     deleted_at |-> Null],
    f_case     |-> [name |-> "Case Number",    field_type |-> "number",   deleted_at |-> Null],
    f_status   |-> [name |-> "Status",         field_type |-> "status",   deleted_at |-> Null],
    f_assignee |-> [name |-> "Assigned To",    field_type |-> "user",     deleted_at |-> Null],
    f_priority |-> [name |-> "Priority",       field_type |-> "select",   deleted_at |-> Null],
    f_value    |-> [name |-> "Contract Value", field_type |-> "currency", deleted_at |-> Null],
    f_due      |-> [name |-> "Due Date",       field_type |-> "date",     deleted_at |-> Null],
    f_urgent   |-> [name |-> "Urgent",         field_type |-> "boolean",  deleted_at |-> Null]]

FieldIds == DOMAIN SeedFields

\* ticketing_field_status_groups: id -> name, sequence
ticketing_field_status_groups == [
    g_todo |-> [name |-> "To Do",       sequence |-> 1],
    g_prog |-> [name |-> "In Progress", sequence |-> 2],
    g_done |-> [name |-> "Done",        sequence |-> 3]]

\* ticketing_field_status_options: id -> label, sequence, group_id
ticketing_field_status_options == [
    s_todo   |-> [label |-> <<1>>, sequence |-> 1, group_id |-> "g_todo"],
    s_prog   |-> [label |-> <<2>>, sequence |-> 1, group_id |-> "g_prog"],
    s_done   |-> [label |-> <<3>>, sequence |-> 1, group_id |-> "g_done"],
    s_closed |-> [label |-> <<1>>, sequence |-> 2, group_id |-> "g_done"]]

\* ticketing_field_options (select options): id -> label, sequence
ticketing_field_options == [
    o_low  |-> [label |-> <<2>>, sequence |-> 1],
    o_high |-> [label |-> <<1>>, sequence |-> 2],
    o_crit |-> [label |-> <<3>>, sequence |-> 2]]

\* users: id -> first_name, last_name
users == [
    u1 |-> [first_name |-> <<1>>, last_name |-> <<2>>],
    u2 |-> [first_name |-> <<2>>, last_name |-> <<2>>],
    u3 |-> [first_name |-> <<1>>, last_name |-> <<1>>]]

\* one row of ticketing_ticket_field_value with every value slot NULL
EmptyRow == [
    text_value |-> Null, string_value |-> Null, number_value |-> Null,
    date_value |-> Null, boolean_value |-> Null, currency_value |-> Null,
    user_value |-> Null, select_reference_value_uuid |-> Null,
    status_reference_value_uuid |-> Null]

Columns == DOMAIN EmptyRow

(***************************************************************************)
(* State.                                                                  *)
(***************************************************************************)
VARIABLES
    now,              \* the database clock, in ticks
    ticketing_ticket, \* matter id -> [created_at, updated_at]
    field_value,      \* <<matter id, field id>> -> Null or Some(row)
    field_value_rows, \* <<matter id, field id>> -> number of rows of ticketing_ticket_field_value
    histories,        \* ticketing_cycle_time_histories, in commit order
    txn,              \* client -> the updateMatterField call it is running
    nUpdates,         \* number of updateMatterField calls started so far
    listQuery,        \* parameters of the last getMatters call
    listResult,       \* what the last getMatters call returned
    ticketing_fields, \* the ticketing_fields table: id -> name, field_type, deleted_at
    fieldIdCache,     \* the fieldIdCache of the MatterRepo serving the current request
    response,         \* the last HTTP response sent
    resolved,         \* history: field name -> what its first successful resolve returned
    scan,             \* history: the pages a caller has fetched with one list query
    calls             \* history: the updateMatterField calls begun and committed

vars == <<now, ticketing_ticket, field_value, field_value_rows, histories, txn, nUpdates, listQuery, listResult,
          ticketing_fields, fieldIdCache, response, resolved, scan, calls>>

\* the history variables
hist == <<resolved, scan, calls>>

\* what the update path never touches
aux == <<ticketing_fields, fieldIdCache, response, hist>>

store == <<ticketing_ticket, field_value, field_value_rows, histories>>

IdleTxn == [pc |-> "idle", matterId |-> "", fieldId |-> "", fieldType |-> "",
            value |-> Null, started |-> 0, columnName |-> "",
            pending_history |-> Null, conflict |-> FALSE, last |-> "none"]

NoQuery == [page |-> 0, limit |-> 0, sortBy |-> "", sortOrder |-> "", search |-> ""]

NoResult == [matters |-> <<>>, total |-> 0]

\* private fieldIdCache = new Map(): a function from the cached names
newFieldIdCache == <<>>

NoResponse == [status |-> 0, error |-> "", details |-> {}, body |-> <<>>,
               request |-> [kind |-> "none"]]

NoScan == [query |-> NoQuery, pages |-> <<>>]

\* no call begun, none committed
NoCalls == [open |-> [c \in Clients |-> [id |-> 0, hadRow |-> FALSE]], committed |-> <<>>]

\* the variables a specification starts the same way
InitAux ==
    /\ ticketing_fields = SeedFields
    /\ fieldIdCache = newFieldIdCache
    /\ response = NoResponse
    /\ resolved = <<>>
    /\ scan = NoScan
    /\ calls = NoCalls

(***************************************************************************)
(* The seeded store.  m1 carries a Status row, a subject stored in the     *)
(* alternate text slot and a Priority; m2 has no Status row; m3 is already *)
(* Done and has no transition rows.                                        *)
(***************************************************************************)
SeedRows == [k \in Matters \X FieldIds |->
    CASE k = <<"m1", "f_status">>   -> Some([EmptyRow EXCEPT !.status_reference_value_uuid = Some("s_todo")])
      [] k = <<"m1", "f_subject">>  -> Some([EmptyRow EXCEPT !.string_value = Some(TextB)])
      [] k = <<"m1", "f_priority">> -> Some([EmptyRow EXCEPT !.select_reference_value_uuid = Some("o_low")])
      [] k = <<"m2", "f_priority">> -> Some([EmptyRow EXCEPT !.select_reference_value_uuid = Some("o_high")])
      [] k = <<"m3", "f_status">>   -> Some([EmptyRow EXCEPT !.status_reference_value_uuid = Some("s_done")])
      [] OTHER -> Null]

\* the rows of ticketing_ticket_field_value behind a seeded table: one per value
seededRows(rows) == [k \in DOMAIN rows |-> IF IsNull(rows[k]) THEN 0 ELSE 1]

Init ==
    /\ InitAux
    /\ now = 1
    /\ ticketing_ticket = [m \in Matters |-> [created_at |-> 0, updated_at |-> 0]]
    /\ field_value = SeedRows
    /\ histories = <<>>
    /\ field_value_rows = seededRows(field_value)
    /\ txn = [c \in Clients |-> IdleTxn]
    /\ nUpdates = 0
    /\ listQuery = NoQuery
    /\ listResult = NoResult

(***************************************************************************)
(* MatterRepo.updateMatterField.  One action per awaited statement.  The   *)
(* statements run inside BEGIN .. COMMIT at READ COMMITTED: the writes of  *)
(* a transaction are buffered in txn[c] and reach the store at COMMIT;     *)
(* NOW() is the time the transaction began.                                *)
(***************************************************************************)

\* columnNameOf whose default branch stores the value as text instead of throwing
columnNameOf_defaultText(fieldType) ==
    CASE fieldType = "number"   -> "number_value"
      [] fieldType = "date"     -> "date_value"
      [] fieldType = "boolean"  -> "boolean_value"
      [] fieldType = "currency" -> "currency_value"
      [] fieldType = "user"     -> "user_value"
      [] fieldType = "select"   -> "select_reference_value_uuid"
      [] fieldType = "status"   -> "status_reference_value_uuid"
      [] OTHER -> "text_value"

\* the switch on fieldType: the column that receives the value ("" = default branch)
columnNameOf(fieldType) ==
    CASE fieldType = "text"     -> "text_value"
      [] fieldType = "number"   -> "number_value"
      [] fieldType = "date"     -> "date_value"
      [] fieldType = "boolean"  -> "boolean_value"
      [] fieldType = "currency" -> "currency_value"
      [] fieldType = "user"     -> "user_value"
      [] fieldType = "select"   -> "select_reference_value_uuid"
      [] fieldType = "status"   -> "status_reference_value_uuid"
      [] OTHER -> ""

\* pool.connect(); BEGIN
updateMatterField_begin(c, matterId, fieldId, fieldType, value) ==
    /\ txn[c].pc = "idle"
    /\ nUpdates < MaxUpdates
    /\ now <= MaxTime
    /\ txn' = [txn EXCEPT ![c] = [IdleTxn EXCEPT !.pc = "switch", !.matterId = matterId,
                                    !.fieldId = fieldId, !.fieldType = fieldType,
                                    !.value = value, !.started = now]]
    /\ nUpdates' = nUpdates + 1
    /\ UNCHANGED <<now, store, listQuery, listResult, ticketing_fields, fieldIdCache,
                   response, resolved, scan>>

\* the row of ticketing_cycle_time_histories the status case inserts
transitionRow(t, fromStatusId) ==
    [ticket_id |-> t.matterId, status_field_id |-> t.fieldId,
     from_status_id |-> fromStatusId, to_status_id |-> t.value,
     transitioned_at |-> t.started]

\* updateMatterField_switch that inserts a transition row for every status
\* update, whether or not a Field Value row exists
updateMatterField_switch_alwaysLog(c) ==
    LET t == txn[c]
        cur == field_value[<<t.matterId, t.fieldId>>]
    IN  /\ t.pc = "switch"
        /\ IF columnNameOf(t.fieldType) = ""
           THEN txn' = [txn EXCEPT ![c] = [IdleTxn EXCEPT !.last = "unsupported"]]
           ELSE txn' = [txn EXCEPT ![c].pc = "upsert",
                                   ![c].columnName = columnNameOf(t.fieldType),
                                   ![c].pending_history =
                                       IF t.fieldType = "status"
                                       THEN Some(transitionRow(t,
                                                IF IsNull(cur) THEN Null
                                                ELSE Val(cur).status_reference_value_uuid))
                                       ELSE Null]
        /\ UNCHANGED <<now, store, nUpdates, listQuery, listResult, aux>>

\* switch (fieldType): pick the column; for status, SELECT the current value
\* and INSERT the transition row when a Field Value row exists; default: throw
updateMatterField_switch(c) ==
    LET t == txn[c]
        cur == field_value[<<t.matterId, t.fieldId>>]
    IN  /\ t.pc = "switch"
        /\ IF columnNameOf(t.fieldType) = ""
           THEN txn' = [txn EXCEPT ![c] = [IdleTxn EXCEPT !.last = "unsupported"]]
           ELSE txn' = [txn EXCEPT ![c].pc = "upsert",
                                   ![c].columnName = columnNameOf(t.fieldType),
                                   ![c].pending_history =
                                       IF t.fieldType = "status" /\ ~IsNull(cur)
                                       THEN Some(transitionRow(t, Val(cur).status_reference_value_uuid))
                                       ELSE Null]
        /\ UNCHANGED <<now, store, nUpdates, listQuery, listResult, aux>>

\* holdsValueLock when the pair has no unique index to wait on
holdsValueLock_noArbiter(d, matterId, fieldId) == FALSE

\* the row lock of (ticket_id, ticket_field_id), taken by the upsert, held to the end
holdsValueLock(d, matterId, fieldId) ==
    /\ txn[d].pc \in {"touch", "commit"}
    /\ txn[d].matterId = matterId
    /\ txn[d].fieldId = fieldId

\* the row lock of ticketing_ticket, taken by the UPDATE, held to the end
holdsTicketLock(d, matterId) ==
    /\ txn[d].pc = "commit"
    /\ txn[d].matterId = matterId

\* INSERT .. ON CONFLICT (ticket_id, ticket_field_id) DO UPDATE SET column = $3:
\* the statement waits for a transaction that has written the pair, then takes
\* the DO UPDATE arm when a row of the pair exists and inserts a row otherwise
updateMatterField_upsert(c) ==
    /\ txn[c].pc = "upsert"
    /\ \A d \in Clients \ {c} : ~holdsValueLock(d, txn[c].matterId, txn[c].fieldId)
    /\ txn' = [txn EXCEPT ![c].pc = "touch",
                          ![c].conflict = field_value_rows[<<txn[c].matterId, txn[c].fieldId>>] > 0]
    /\ UNCHANGED <<now, store, nUpdates, listQuery, listResult, aux>>

\* UPDATE ticketing_ticket SET updated_at = NOW()
updateMatterField_touch(c) ==
    /\ txn[c].pc = "touch"
    /\ \A d \in Clients \ {c} : ~holdsTicketLock(d, txn[c].matterId)
    /\ txn' = [txn EXCEPT ![c].pc = "commit"]
    /\ UNCHANGED <<now, store, nUpdates, listQuery, listResult, aux>>

\* upsertedRow with ON CONFLICT DO NOTHING: an existing row is kept as it is
upsertedRow_doNothing(old, columnName, columnValue) ==
    IF IsNull(old) THEN Some([EmptyRow EXCEPT ![columnName] = columnValue]) ELSE old

\* the Field Value row after the upsert: the named column set, the others kept
upsertedRow(old, columnName, columnValue) ==
    Some([(IF IsNull(old) THEN EmptyRow ELSE Val(old)) EXCEPT ![columnName] = columnValue])

\* updateMatterField_commit whose UPDATE ticketing_ticket has no WHERE id = $1
updateMatterField_commit_touchEveryTicket(c) ==
    LET t == txn[c]
        k == <<t.matterId, t.fieldId>>
    IN  /\ t.pc = "commit"
        /\ histories' = IF IsNull(t.pending_history) THEN histories
                        ELSE Append(histories, Val(t.pending_history))
        /\ field_value' = [field_value EXCEPT ![k] = upsertedRow(@, t.columnName, t.value)]
        /\ field_value_rows' = [field_value_rows EXCEPT ![k] = IF t.conflict THEN @ ELSE @ + 1]
        /\ ticketing_ticket' = [m \in Matters |-> [ticketing_ticket[m] EXCEPT !.updated_at = t.started]]
        /\ now' = IF now > t.started THEN now ELSE now + 1
        /\ txn' = [txn EXCEPT ![c] = [IdleTxn EXCEPT !.last = "ok"]]
        /\ UNCHANGED <<nUpdates, listQuery, listResult, ticketing_fields, fieldIdCache,
                       response, resolved, scan>>

\* COMMIT: the buffered writes become visible together
updateMatterField_commit(c) ==
    LET t == txn[c]
        k == <<t.matterId, t.fieldId>>
    IN  /\ t.pc = "commit"
        /\ histories' = IF IsNull(t.pending_history) THEN histories
                        ELSE Append(histories, Val(t.pending_history))
        /\ field_value' = [field_value EXCEPT ![k] = upsertedRow(@, t.columnName, t.value)]
        /\ field_value_rows' = [field_value_rows EXCEPT ![k] = IF t.conflict THEN @ ELSE @ + 1]
        /\ ticketing_ticket' = [ticketing_ticket EXCEPT ![t.matterId].updated_at = t.started]
        /\ now' = IF now > t.started THEN now ELSE now + 1
        /\ txn' = [txn EXCEPT ![c] = [IdleTxn EXCEPT !.last = "ok"]]
        /\ UNCHANGED <<nUpdates, listQuery, listResult, ticketing_fields, fieldIdCache,
                       response, resolved, scan>>

\* updateMatterField_rollback without the ROLLBACK: the transition row already
\* inserted stays in the log
updateMatterField_rollback_keepLog(c) ==
    /\ txn[c].pc \in {"switch", "upsert", "touch", "commit"}
    /\ txn' = [txn EXCEPT ![c] = [IdleTxn EXCEPT !.last = "storage_error"]]
    /\ histories' = IF IsNull(txn[c].pending_history) THEN histories
                    ELSE Append(histories, Val(txn[c].pending_history))
    /\ UNCHANGED <<now, ticketing_ticket, field_value, field_value_rows, nUpdates, listQuery, listResult, aux>>

\* a statement fails (connection, constraint, abort): catch, ROLLBACK, rethrow
updateMatterField_rollback(c) ==
    /\ txn[c].pc \in {"switch", "upsert", "touch", "commit"}
    /\ txn' = [txn EXCEPT ![c] = [IdleTxn EXCEPT !.last = "storage_error"]]
    /\ UNCHANGED <<now, store, nUpdates, listQuery, listResult, aux>>

\* the database clock advances
Tick ==
    /\ now < MaxTime
    /\ now' = now + 1
    /\ UNCHANGED <<store, txn, nUpdates, listQuery, listResult, aux>>

\* the PATCH requests the model sends: matter id, then the body {fieldId,
\* fieldType, value}; fieldType is supplied by the caller and is not compared
\* with the field's declared type
UpdateInputs == {
    <<"m1", "f_status",   "status", Some("s_todo")>>,
    <<"m1", "f_status",   "status", Some("s_done")>>,
    <<"m2", "f_status",   "status", Some("s_todo")>>,
    <<"m2", "f_status",   "status", Some("s_done")>>,
    <<"m2", "f_priority", "status", Some("s_done")>>,
    <<"m1", "f_subject",  "text",   Null>>,
    <<"m1", "f_subject",  "json",   Some(TextA)>>}

Next ==
    \/ \E c \in Clients, i \in UpdateInputs :
           updateMatterField_begin(c, i[1], i[2], i[3], i[4]) /\ UNCHANGED calls
    \/ \E c \in Clients : updateMatterField_switch(c)
    \/ \E c \in Clients : updateMatterField_upsert(c)
    \/ \E c \in Clients : updateMatterField_touch(c)
    \/ \E c \in Clients : updateMatterField_commit(c) /\ UNCHANGED calls
    \/ \E c \in Clients : updateMatterField_rollback(c)
    \/ Tick

Spec == Init /\ [][Next]_vars

(***************************************************************************)
(* Cycle time and SLA, detail path: cycle_time_service.ts.                 *)
(***************************************************************************)
Min(S) == CHOOSE x \in S : \A y \in S : x <= y

\* Math.floor(a / b) for a >= 0, b > 0
Floor(a, b) == a \div b

Join(parts) ==
    IF parts = <<>> THEN ""
    ELSE IF Len(parts) = 1 THEN parts[1]
    ELSE IF Len(parts) = 2 THEN parts[1] \o " " \o parts[2]
    ELSE parts[1] \o " " \o parts[2] \o " " \o parts[3]

\* formatDuration of cycle_time_service.ts from `const minutes` on, seconds
\* being Math.floor(durationMs / 1000)
formatSeconds(seconds, isInProgress) ==
    LET minutes == Floor(seconds, 60)
        hours == Floor(minutes, 60)
        days == Floor(hours, 24)
        remainingHours == hours % 24
        remainingMinutes == minutes % 60
        p1 == IF days > 0 THEN <<ToString(days) \o "d">> ELSE <<>>
        p2 == IF remainingHours > 0 THEN Append(p1, ToString(remainingHours) \o "h") ELSE p1
        p3 == IF remainingMinutes > 0 /\ days = 0
              THEN Append(p2, ToString(remainingMinutes) \o "m") ELSE p2
        parts == IF Len(p3) = 0 THEN <<ToString(seconds) \o "s">> ELSE p3
        formatted == Join(parts)
    IN  IF isInProgress THEN "In Progress: " \o formatted ELSE formatted

\* formatDuration(durationMs, isInProgress) of cycle_time_service.ts
formatDuration(durationMs, isInProgress) ==
    IF IsNull(durationMs) \/ Val(durationMs) < 0 THEN "N/A"
    ELSE formatSeconds(Floor(Val(durationMs), 1000), isInProgress)

\* determineSLAStatus(resolutionTimeMs, isInProgress, slaThresholdMs)
determineSLAStatus(resolutionTimeMs, isInProgress, thresholdMs) ==
    IF isInProgress THEN "In Progress"
    ELSE IF IsNull(resolutionTimeMs) THEN "In Progress"
    ELSE IF Val(resolutionTimeMs) <= thresholdMs THEN "Met" ELSE "Breached"

\* calculateResolutionTime(startedAt, completedAt, currentTime), times in ticks
calculateResolutionTime(startedAt, completedAt, currentTime) ==
    IF IsNull(startedAt) THEN Null
    ELSE IF ~IsNull(completedAt) THEN Some((Val(completedAt) - Val(startedAt)) * TickMs)
    ELSE Some((currentTime - Val(startedAt)) * TickMs)

\* tfsg.name of the group of a status option id, NULL when the id does not resolve
statusGroupNameOf(statusId) ==
    IF IsNull(statusId) \/ Val(statusId) \notin DOMAIN ticketing_field_status_options THEN Null
    ELSE Some(ticketing_field_status_groups[
             ticketing_field_status_options[Val(statusId)].group_id].name)

\* the rows of the log that the calculator's query sees for one ticket:
\* tcth JOIN tfso ON to_status_id JOIN tfsg, WHERE ticket_id = ...
joinedHistory(log, ticketId) ==
    {i \in 1..Len(log) : /\ log[i].ticket_id = ticketId
                         /\ ~IsNull(statusGroupNameOf(log[i].to_status_id))}

\* MIN(transitioned_at) as started_at
started_at(log, ticketId) ==
    LET rows == joinedHistory(log, ticketId)
    IN  IF rows = {} THEN Null ELSE Some(Min({log[i].transitioned_at : i \in rows}))

\* completed_at taking the latest entry into Done instead of the earliest
completed_at_latest(log, ticketId) ==
    LET rows == {i \in joinedHistory(log, ticketId) :
                    statusGroupNameOf(log[i].to_status_id) = Some("Done")}
    IN  IF rows = {} THEN Null
        ELSE Some(CHOOSE x \in {log[i].transitioned_at : i \in rows} :
                      \A y \in {log[i].transitioned_at : i \in rows} : x >= y)

\* MIN(transitioned_at) FILTER (WHERE tfsg.name = 'Done') as completed_at
completed_at(log, ticketId) ==
    LET rows == {i \in joinedHistory(log, ticketId) :
                    statusGroupNameOf(log[i].to_status_id) = Some("Done")}
    IN  IF rows = {} THEN Null ELSE Some(Min({log[i].transitioned_at : i \in rows}))

\* CycleTimeService.calculateCycleTimesAndSLA for one item
calculateCycleTimesAndSLA(ticketId, currentStatusGroupName) ==
    LET startedAt == started_at(histories, ticketId)
        completedAt == completed_at(histories, ticketId)
        isInProgress == currentStatusGroupName # Some("Done")
        resolutionTimeMs == calculateResolutionTime(startedAt, completedAt, now)
    IN  [resolutionTimeMs |-> resolutionTimeMs,
         resolutionTimeFormatted |-> formatDuration(resolutionTimeMs, isInProgress),
         isInProgress |-> isInProgress,
         startedAt |-> startedAt,
         completedAt |-> completedAt,
         sla |-> determineSLAStatus(resolutionTimeMs, isInProgress, slaThresholdMs)]

(***************************************************************************)
(* Field materializer: MatterRepo.getMatterFieldsBatch.                    *)
(***************************************************************************)
\* JavaScript truthiness of a nullable string
Truthy(x) == ~IsNull(x) /\ Val(x) # <<>>

\* the `value` the switch on row.field_type extracts from a joined row
materializedValue(row, field_type) ==
    CASE field_type = "text" ->
             IF Truthy(row.text_value) THEN row.text_value ELSE row.string_value
      [] field_type = "number" -> row.number_value
      [] field_type = "date" -> row.date_value
      [] field_type = "boolean" -> row.boolean_value
      [] field_type = "currency" -> row.currency_value
      [] field_type = "user" ->
             IF ~IsNull(row.user_value) /\ Val(row.user_value) \in DOMAIN users
             THEN Some([id |-> Val(row.user_value),
                        firstName |-> users[Val(row.user_value)].first_name,
                        lastName |-> users[Val(row.user_value)].last_name])
             ELSE Null
      [] field_type = "select" -> row.select_reference_value_uuid
      [] field_type = "status" ->
             IF IsNull(row.status_reference_value_uuid) THEN Null
             ELSE Some([statusId |-> Val(row.status_reference_value_uuid),
                        groupName |-> statusGroupNameOf(row.status_reference_value_uuid)])
      [] OTHER -> Null

\* fieldsByMatter[ticketId]: field name -> {fieldId, fieldType, value}, rows only
getMatterFieldsBatch(ticketId) ==
    LET present == {f \in FieldIds : ~IsNull(field_value[<<ticketId, f>>])}
    IN  [n \in {ticketing_fields[f].name : f \in present} |->
            LET f == CHOOSE g \in present : ticketing_fields[g].name = n
            IN  [fieldId |-> f,
                 fieldType |-> ticketing_fields[f].field_type,
                 value |-> materializedValue(Val(field_value[<<ticketId, f>>]),
                                             ticketing_fields[f].field_type)]]

\* MatterService.getMatterById: the detail representation of an existing matter
getMatterById(matterId) ==
    LET fields == getMatterFieldsBatch(matterId)
        statusGroupName ==
            IF "Status" \in DOMAIN fields /\ fields["Status"].fieldType = "status"
               /\ ~IsNull(fields["Status"].value)
            THEN Val(fields["Status"].value).groupName
            ELSE Null
        ct == calculateCycleTimesAndSLA(matterId, statusGroupName)
    IN  [id |-> matterId,
         fields |-> fields,
         createdAt |-> ticketing_ticket[matterId].created_at,
         updatedAt |-> ticketing_ticket[matterId].updated_at,
         cycleTime |-> [resolutionTimeMs |-> ct.resolutionTimeMs,
                        resolutionTimeFormatted |-> ct.resolutionTimeFormatted,
                        isInProgress |-> ct.isInProgress,
                        startedAt |-> ct.startedAt,
                        completedAt |-> ct.completedAt],
         sla |-> ct.sla]

(***************************************************************************)
(* Cycle time and SLA, list path: the SQL helpers of MatterRepo.  SQL      *)
(* comparisons are three-valued: a comparison with NULL is not true, so    *)
(* the WHEN it guards is not taken.                                        *)
(***************************************************************************)
\* getCycleTimeJoins, first_transition: MIN(transitioned_at) GROUP BY ticket_id
first_transition_at(ticketId) ==
    LET rows == {i \in 1..Len(histories) : histories[i].ticket_id = ticketId}
    IN  IF rows = {} THEN Null ELSE Some(Min({histories[i].transitioned_at : i \in rows}))

\* getCycleTimeJoins, done_transition: the same over rows whose to-status is in 'Done'
done_transition_at(ticketId) ==
    LET rows == {i \in 1..Len(histories) :
                    /\ histories[i].ticket_id = ticketId
                    /\ statusGroupNameOf(histories[i].to_status_id) = Some("Done")}
    IN  IF rows = {} THEN Null ELSE Some(Min({histories[i].transitioned_at : i \in rows}))

\* getCycleTimeJoins, current_status: the group of the value of the field named
\* 'Status' (not soft-deleted); NULL when the LEFT JOIN finds no row
current_status_group_name(ticketId) ==
    LET fs == {f \in FieldIds : /\ ticketing_fields[f].name = "Status"
                                /\ IsNull(ticketing_fields[f].deleted_at)
                                /\ ~IsNull(field_value[<<ticketId, f>>])
                                /\ ~IsNull(statusGroupNameOf(
                                       Val(field_value[<<ticketId, f>>]).status_reference_value_uuid))}
    IN  IF fs = {} THEN Null
        ELSE statusGroupNameOf(
                 Val(field_value[<<ticketId, CHOOSE f \in fs : TRUE>>]).status_reference_value_uuid)

\* getResolutionTimeSql: EXTRACT(EPOCH FROM ...) * 1000
getResolutionTimeSql(ticketId) ==
    LET first == first_transition_at(ticketId)
        done == done_transition_at(ticketId)
    IN  IF ~IsNull(done) /\ ~IsNull(first) THEN Some((Val(done) - Val(first)) * TickMs)
        ELSE IF ~IsNull(first) THEN Some((now - Val(first)) * TickMs)
        ELSE Null

\* current_status_group_name != 'Done' as SQL evaluates it: true only for a non-NULL name
sqlNotDone(groupName) == ~IsNull(groupName) /\ Val(groupName) # "Done"

\* getSlaStatusSql
getSlaStatusSql(ticketId) ==
    LET first == first_transition_at(ticketId)
        done == done_transition_at(ticketId)
    IN  IF sqlNotDone(current_status_group_name(ticketId)) THEN "In Progress"
        ELSE IF ~IsNull(done) /\ ~IsNull(first)
             THEN (IF (Val(done) - Val(first)) * TickMs <= slaThresholdMs THEN "Met" ELSE "Breached")
             ELSE "In Progress"

\* MatterRepo.formatDuration from `const minutes` on, seconds being
\* Math.floor(durationMs / 1000)
MatterRepo_formatSeconds(seconds, isInProgress) ==
    LET minutes == Floor(seconds, 60)
        hours == Floor(minutes, 60)
        days == Floor(hours, 24)
        years == Floor(days, 365)
        remainingDays == days % 365
        remainingHours == hours % 24
        remainingMinutes == minutes % 60
        remainingSeconds == seconds % 60
        parts ==
            IF years > 0
            THEN (IF remainingDays > 0
                  THEN <<ToString(years) \o "y", ToString(remainingDays) \o "d">>
                  ELSE <<ToString(years) \o "y">>)
            ELSE IF days > 0
            THEN (IF remainingHours > 0
                  THEN <<ToString(days) \o "d", ToString(remainingHours) \o "h">>
                  ELSE <<ToString(days) \o "d">>)
            ELSE IF hours > 0
            THEN (IF remainingMinutes > 0
                  THEN <<ToString(hours) \o "h", ToString(remainingMinutes) \o "m">>
                  ELSE <<ToString(hours) \o "h">>)
            ELSE IF minutes > 0 THEN <<ToString(minutes) \o "m">>
            ELSE <<ToString(remainingSeconds) \o "s">>
        formatted == Join(parts)
    IN  IF isInProgress THEN "In Progress: " \o formatted ELSE formatted

\* MatterRepo.formatDuration (the list path's own formatter)
MatterRepo_formatDuration(durationMs, isInProgress) ==
    IF IsNull(durationMs) \/ Val(durationMs) < 0 THEN "N/A"
    ELSE MatterRepo_formatSeconds(Floor(Val(durationMs), 1000), isInProgress)

\* processCycleTimeData applied to the row the page query returns for a ticket
processCycleTimeData(ticketId) ==
    LET resolutionTimeMs == getResolutionTimeSql(ticketId)
        isInProgress == current_status_group_name(ticketId) # Some("Done")
    IN  [resolutionTimeMs |-> resolutionTimeMs,
         resolutionTimeFormatted |-> MatterRepo_formatDuration(resolutionTimeMs, isInProgress),
         isInProgress |-> isInProgress,
         startedAt |-> first_transition_at(ticketId),
         completedAt |-> done_transition_at(ticketId),
         sla |-> getSlaStatusSql(ticketId)]

(***************************************************************************)
(* List path: MatterRepo.getFieldInfo, buildOrderByClause and getMatters.  *)
(***************************************************************************)
\* getFieldInfo: SELECT id, field_type FROM ticketing_fields WHERE name = $1
\* AND deleted_at IS NULL; Null when no row
getFieldInfo(fieldName) ==
    LET fs == {f \in FieldIds : /\ ticketing_fields[f].name = fieldName
                                /\ IsNull(ticketing_fields[f].deleted_at)}
    IN  IF fs = {} THEN Null ELSE Some(CHOOSE f \in fs : TRUE)

Term(expr, nullsLast) == [expr |-> expr, nullsLast |-> nullsLast]

CreatedTerm == Term("tt.created_at", FALSE)

\* the ORDER BY terms buildOrderByClause returns for a sort key; every term
\* carries the requested direction
buildOrderByClause(sortBy) ==
    IF sortBy = "created_at" THEN <<CreatedTerm>>
    ELSE IF sortBy = "updated_at" THEN <<Term("tt.updated_at", FALSE)>>
    ELSE IF sortBy = "Resolution Time" THEN <<Term("resolution_time_ms", TRUE), CreatedTerm>>
    ELSE IF sortBy = "SLA" THEN <<Term("sla_rank", FALSE), CreatedTerm>>
    ELSE IF IsNull(getFieldInfo(sortBy)) THEN <<CreatedTerm>>
    ELSE LET fieldType == ticketing_fields[Val(getFieldInfo(sortBy))].field_type
         IN  CASE fieldType = "number" -> <<Term("number_value", TRUE), CreatedTerm>>
               [] fieldType = "text" -> <<Term("COALESCE(string_value, text_value)", TRUE), CreatedTerm>>
               [] fieldType = "date" -> <<Term("date_value", TRUE), CreatedTerm>>
               [] fieldType = "boolean" -> <<Term("boolean_value", TRUE), CreatedTerm>>
               [] fieldType = "currency" -> <<Term("currency_value->>amount", TRUE), CreatedTerm>>
               [] fieldType = "user" ->
                      <<Term("u_sort.last_name", TRUE), Term("u_sort.first_name", TRUE), CreatedTerm>>
               [] fieldType = "select" ->
                      <<Term("tfo_sort.sequence", TRUE), Term("tfo_sort.label", TRUE), CreatedTerm>>
               [] fieldType = "status" ->
                      <<Term("tfsg_sort.sequence", TRUE), Term("tfso_sort.sequence", TRUE),
                        Term("tfso_sort.label", TRUE), CreatedTerm>>
               [] OTHER -> <<CreatedTerm>>

\* the SLA sort key's CASE expression: 0 'In Progress', 1 'Met', 2 'Breached'
slaRankSql(ticketId) ==
    LET first == first_transition_at(ticketId)
        done == done_transition_at(ticketId)
    IN  IF sqlNotDone(current_status_group_name(ticketId)) THEN 0
        ELSE IF ~IsNull(done) /\ ~IsNull(first)
             THEN (IF (Val(done) - Val(first)) * TickMs <= slaThresholdMs THEN 1 ELSE 2)
             ELSE 0

\* the value of one ORDER BY expression for a ticket; ttfv_sort is the LEFT
\* JOINed value row of the sort field, NULL-extended when there is none
sortValue(expr, ticketId, sortBy) ==
    LET fieldId == getFieldInfo(sortBy)
        ttfv_sort == IF IsNull(fieldId) \/ IsNull(field_value[<<ticketId, Val(fieldId)>>])
                     THEN EmptyRow ELSE Val(field_value[<<ticketId, Val(fieldId)>>])
        u == ttfv_sort.user_value
        o == ttfv_sort.select_reference_value_uuid
        st == ttfv_sort.status_reference_value_uuid
        uOk == ~IsNull(u) /\ Val(u) \in DOMAIN users
        oOk == ~IsNull(o) /\ Val(o) \in DOMAIN ticketing_field_options
        stOk == ~IsNull(st) /\ Val(st) \in DOMAIN ticketing_field_status_options
    IN  CASE expr = "tt.created_at" -> Some(ticketing_ticket[ticketId].created_at)
          [] expr = "tt.updated_at" -> Some(ticketing_ticket[ticketId].updated_at)
          [] expr = "resolution_time_ms" -> getResolutionTimeSql(ticketId)
          [] expr = "sla_rank" -> Some(slaRankSql(ticketId))
          [] expr = "number_value" -> ttfv_sort.number_value
          [] expr = "COALESCE(string_value, text_value)" ->
                 IF ~IsNull(ttfv_sort.string_value) THEN ttfv_sort.string_value
                 ELSE ttfv_sort.text_value
          [] expr = "date_value" -> ttfv_sort.date_value
          [] expr = "boolean_value" -> ttfv_sort.boolean_value
          [] expr = "currency_value->>amount" ->
                 IF IsNull(ttfv_sort.currency_value) THEN Null
                 ELSE Some(Val(ttfv_sort.currency_value).amount)
          [] expr = "u_sort.last_name" -> IF uOk THEN Some(users[Val(u)].last_name) ELSE Null
          [] expr = "u_sort.first_name" -> IF uOk THEN Some(users[Val(u)].first_name) ELSE Null
          [] expr = "tfo_sort.sequence" ->
                 IF oOk THEN Some(ticketing_field_options[Val(o)].sequence) ELSE Null
          [] expr = "tfo_sort.label" ->
                 IF oOk THEN Some(ticketing_field_options[Val(o)].label) ELSE Null
          [] expr = "tfsg_sort.sequence" ->
                 IF stOk THEN Some(ticketing_field_status_groups[
                                      ticketing_field_status_options[Val(st)].group_id].sequence)
                 ELSE Null
          [] expr = "tfso_sort.sequence" ->
                 IF stOk THEN Some(ticketing_field_status_options[Val(st)].sequence) ELSE Null
          [] expr = "tfso_sort.label" ->
                 IF stOk THEN Some(ticketing_field_status_options[Val(st)].label) ELSE Null

TextExprs == {"COALESCE(string_value, text_value)", "u_sort.last_name", "u_sort.first_name",
              "tfo_sort.label", "tfso_sort.label"}

RECURSIVE TextLess(_, _)
\* lexicographic order of two strings
TextLess(a, b) ==
    IF b = <<>> THEN FALSE
    ELSE IF a = <<>> THEN TRUE
    ELSE IF Head(a) # Head(b) THEN Head(a) < Head(b)
    ELSE TextLess(Tail(a), Tail(b))

\* a < b for two non-NULL values of one ORDER BY expression (false < true)
ValueLess(expr, a, b) ==
    IF expr \in TextExprs THEN TextLess(a, b)
    ELSE IF expr = "boolean_value" THEN a = FALSE /\ b = TRUE
    ELSE a < b

\* termCompare with the database's default NULL placement, as if the clause
\* never said NULLS LAST
termCompare_defaultNulls(term, sortOrder, a, b) ==
    IF IsNull(a) /\ IsNull(b) THEN 0
    ELSE IF IsNull(a) THEN (IF sortOrder = "asc" THEN 1 ELSE -1)
    ELSE IF IsNull(b) THEN (IF sortOrder = "asc" THEN -1 ELSE 1)
    ELSE IF ValueLess(term.expr, Val(a), Val(b)) THEN (IF sortOrder = "asc" THEN -1 ELSE 1)
    ELSE IF ValueLess(term.expr, Val(b), Val(a)) THEN (IF sortOrder = "asc" THEN 1 ELSE -1)
    ELSE 0

\* -1 when a sorts strictly before b under `expr DIR [NULLS LAST]`, 1 when
\* after, 0 when they tie; without NULLS LAST a NULL is larger than any value
termCompare(term, sortOrder, a, b) ==
    IF IsNull(a) /\ IsNull(b) THEN 0
    ELSE IF IsNull(a) THEN (IF term.nullsLast \/ sortOrder = "asc" THEN 1 ELSE -1)
    ELSE IF IsNull(b) THEN (IF term.nullsLast \/ sortOrder = "asc" THEN -1 ELSE 1)
    ELSE IF ValueLess(term.expr, Val(a), Val(b)) THEN (IF sortOrder = "asc" THEN -1 ELSE 1)
    ELSE IF ValueLess(term.expr, Val(b), Val(a)) THEN (IF sortOrder = "asc" THEN 1 ELSE -1)
    ELSE 0

RECURSIVE clauseCompare(_, _, _, _, _)
\* comparison of two tickets under a whole ORDER BY clause
clauseCompare(terms, sortOrder, sortBy, x, y) ==
    IF terms = <<>> THEN 0
    ELSE LET c == termCompare(Head(terms), sortOrder,
                              sortValue(Head(terms).expr, x, sortBy),
                              sortValue(Head(terms).expr, y, sortBy))
         IN  IF c # 0 THEN c ELSE clauseCompare(Tail(terms), sortOrder, sortBy, x, y)

\* the orders in which the database may return a set of tickets: every
\* arrangement the ORDER BY clause allows (rows that tie come in any order)
orderedRows(tickets, sortBy, sortOrder) ==
    {r \in [1..Cardinality(tickets) -> tickets] :
        /\ \A i, j \in DOMAIN r : i # j => r[i] # r[j]
        /\ \A i, j \in DOMAIN r :
               i < j => clauseCompare(buildOrderByClause(sortBy), sortOrder, sortBy, r[i], r[j]) <= 0}

(***************************************************************************)
(* Search: MatterRepo.buildSearchCondition.  Character codes: 0 is the     *)
(* space, 1..26 are a..z, 27..52 are A..Z, 53..62 are the digits 0..9, 63  *)
(* is % and 64 is _.                                                       *)
(***************************************************************************)
\* the lower-case form of a character, as ILIKE folds it
lowerChar(ch) == IF ch \in 27..52 THEN ch - 26 ELSE ch

RECURSIVE trim(_)
\* String.prototype.trim over the space character
trim(str) ==
    IF str = <<>> THEN <<>>
    ELSE IF Head(str) = 0 THEN trim(Tail(str))
    ELSE IF str[Len(str)] = 0 THEN trim(SubSeq(str, 1, Len(str) - 1))
    ELSE str

RECURSIVE likeMatch(_, _)
\* text ILIKE pattern: % matches any run of characters, _ any one character,
\* every other character itself without regard to case
likeMatch(text, pattern) ==
    IF pattern = <<>> THEN text = <<>>
    ELSE IF Head(pattern) = 63
         THEN \/ likeMatch(text, Tail(pattern))
              \/ text # <<>> /\ likeMatch(Tail(text), pattern)
    ELSE /\ text # <<>>
         /\ Head(pattern) = 64 \/ lowerChar(Head(text)) = lowerChar(Head(pattern))
         /\ likeMatch(Tail(text), Tail(pattern))

\* value ILIKE '%' || $1 || '%'; a NULL value does not match
ilikeTerm(value, searchTerm) ==
    ~IsNull(value) /\ likeMatch(Val(value), <<63>> \o searchTerm \o <<63>>)

RECURSIVE castToText(_)
\* CAST(n AS TEXT) of a non-negative whole number: its decimal digits
castToText(n) ==
    IF n < 10 THEN <<53 + n>> ELSE castToText(n \div 10) \o <<53 + (n % 10)>>

\* the SLA label as text
slaLabelText(sla) ==
    CASE sla = "Met" -> <<39, 5, 20>>
      [] sla = "Breached" -> <<28, 18, 5, 1, 3, 8, 5, 4>>
      [] sla = "In Progress" -> <<35, 14, 0, 42, 18, 15, 7, 18, 5, 19, 19>>

\* one EXISTS branch over the value row of field f, chosen by the declared
\* type of the field (tf_search.field_type)
fieldValueMatches(row, fieldType, searchTerm) ==
    CASE fieldType = "text" ->
             ilikeTerm(row.string_value, searchTerm) \/ ilikeTerm(row.text_value, searchTerm)
      [] fieldType = "number" ->
             /\ ~IsNull(row.number_value)
             /\ ilikeTerm(Some(castToText(Val(row.number_value))), searchTerm)
      [] fieldType = "status" ->
             /\ ~IsNull(row.status_reference_value_uuid)
             /\ Val(row.status_reference_value_uuid) \in DOMAIN ticketing_field_status_options
             /\ ilikeTerm(Some(ticketing_field_status_options[
                                   Val(row.status_reference_value_uuid)].label), searchTerm)
      [] fieldType = "user" ->
             /\ ~IsNull(row.user_value)
             /\ Val(row.user_value) \in DOMAIN users
             /\ LET u == users[Val(row.user_value)]
                IN  \/ ilikeTerm(Some(u.first_name), searchTerm)
                    \/ ilikeTerm(Some(u.last_name), searchTerm)
                    \/ ilikeTerm(Some(u.first_name \o <<0>> \o u.last_name), searchTerm)
      [] fieldType = "currency" ->
             /\ ~IsNull(row.currency_value)
             /\ ilikeTerm(Some(castToText(Val(row.currency_value).amount)), searchTerm)
      [] fieldType = "select" ->
             /\ ~IsNull(row.select_reference_value_uuid)
             /\ Val(row.select_reference_value_uuid) \in DOMAIN ticketing_field_options
             /\ ilikeTerm(Some(ticketing_field_options[
                                   Val(row.select_reference_value_uuid)].label), searchTerm)
      [] OTHER -> FALSE

\* the condition buildSearchCondition adds for a non-blank term, over one ticket
searchCondition(ticketId, searchTerm) ==
    \/ \E f \in FieldIds :
           /\ ~IsNull(field_value[<<ticketId, f>>])
           /\ fieldValueMatches(Val(field_value[<<ticketId, f>>]),
                                ticketing_fields[f].field_type, searchTerm)
    \/ ilikeTerm(Some(slaLabelText(getSlaStatusSql(ticketId))), searchTerm)

\* buildSearchCondition: `!search || search.trim() === ''` adds no condition
searchIsBlank(search) == trim(search) = TextEmpty

\* the WHERE clause of a repository that neither trims the term nor drops a
\* term of blanks
matchingTickets_untrimmed(search) ==
    IF search = TextEmpty THEN Matters
    ELSE {m \in Matters : searchCondition(m, search)}

\* the tickets the WHERE clause keeps
matchingTickets(search) ==
    IF searchIsBlank(search) THEN Matters
    ELSE {m \in Matters : searchCondition(m, trim(search))}

\* LIMIT $n OFFSET $m
limitOffset(rows, limit, offset) ==
    IF offset >= Len(rows) THEN <<>>
    ELSE SubSeq(rows, offset + 1, IF offset + limit < Len(rows) THEN offset + limit ELSE Len(rows))

\* what the count query and the page query of getMatters may return
mattersQuery(page, limit, sortBy, sortOrder, search) ==
    {[matters |-> limitOffset(rows, limit, (page - 1) * limit),
      total |-> Cardinality(matchingTickets(search))] :
         rows \in orderedRows(matchingTickets(search), sortBy, sortOrder)}

\* the names buildOrderByClause orders by without consulting the catalog
ReservedSortKeys == {"created_at", "updated_at", "Resolution Time", "SLA"}

\* MatterRepo.getFieldInfo on a repository whose cache is `cache`: a cached
\* name is answered from the cache, any other from the table
cachedFieldInfo(cache, fieldName) ==
    IF fieldName \in DOMAIN cache THEN Some(cache[fieldName])
    ELSE IF IsNull(getFieldInfo(fieldName)) THEN Null
    ELSE Some([id |-> Val(getFieldInfo(fieldName)),
               fieldType |-> ticketing_fields[Val(getFieldInfo(fieldName))].field_type])

\* the cache once buildOrderByClause(sortBy) has run: a found field is stored
fieldIdCacheAfter(cache, sortBy) ==
    IF sortBy \in ReservedSortKeys \/ IsNull(cachedFieldInfo(cache, sortBy)) THEN cache
    ELSE (sortBy :> Val(cachedFieldInfo(cache, sortBy))) @@ cache

\* a MatterRepo that is one object for the whole process
repoFieldIdCache_shared(previous) == previous

\* the cache of the MatterRepo a request runs on: the handler builds a new
\* MatterService, which builds a new MatterRepo, whatever cache the MatterRepo
\* of an earlier request held
repoFieldIdCache(previous) == newFieldIdCache

\* the list handler calls MatterRepo.getMatters on its own MatterRepo: the
\* count query, then the page query
getMatters(page, limit, sortBy, sortOrder, search) ==
    /\ listQuery = NoQuery
    /\ \A c \in Clients : txn[c].pc = "idle"
    /\ listResult' \in mattersQuery(page, limit, sortBy, sortOrder, search)
    /\ listQuery' = [page |-> page, limit |-> limit, sortBy |-> sortBy,
                     sortOrder |-> sortOrder, search |-> search]
    /\ fieldIdCache' = fieldIdCacheAfter(repoFieldIdCache(fieldIdCache), sortBy)
    /\ UNCHANGED <<now, store, txn, nUpdates, ticketing_fields>>

\* MatterService.getMatters returns the page to its caller and the request ends:
\* the handler's MatterService and its MatterRepo are released, and what is
\* left of the cache is what the MatterRepo of a later request starts from
getMatters_respond ==
    /\ listQuery # NoQuery
    /\ listQuery' = NoQuery
    /\ listResult' = NoResult
    /\ fieldIdCache' = repoFieldIdCache(fieldIdCache)
    /\ UNCHANGED <<now, store, txn, nUpdates, ticketing_fields>>

(***************************************************************************)
(* Sorting specification: getMatters over a store drawn from a family of   *)
(* stores.  Each matter takes one of five profiles; two matters with the   *)
(* same profile tie on every field.                                        *)
(***************************************************************************)
MaxPage == 2

MaxLimit == 3

SORTABLE_FIELDS == {"subject", "Case Number", "Status", "Assigned To", "Priority",
                    "Contract Value", "Due Date", "Urgent", "Resolution Time", "SLA",
                    "created_at", "updated_at"}

\* sort keys reaching the repository: the validated ones and a name no field has
SortKeys == SORTABLE_FIELDS \cup {"Nonexistent"}

Profiles == {"bare", "low", "high", "met", "nulls"}

\* the column a field type's value is stored in (text has two)
slotOf(fieldType) ==
    CASE fieldType = "text" -> "text_value"
      [] fieldType = "number" -> "number_value"
      [] fieldType = "date" -> "date_value"
      [] fieldType = "boolean" -> "boolean_value"
      [] fieldType = "currency" -> "currency_value"
      [] fieldType = "user" -> "user_value"
      [] fieldType = "select" -> "select_reference_value_uuid"
      [] fieldType = "status" -> "status_reference_value_uuid"

\* the value a profile stores for a field type; Null is a NULL slot
profileValue(profile, fieldType) ==
    CASE profile = "low" ->
             (CASE fieldType = "text" -> Some(TextA)
                [] fieldType = "number" -> Some(1)
                [] fieldType = "date" -> Some(1)
                [] fieldType = "boolean" -> Some(FALSE)
                [] fieldType = "currency" -> Some([amount |-> 1, currency |-> "USD"])
                [] fieldType = "user" -> Some("u1")
                [] fieldType = "select" -> Some("o_high")
                [] fieldType = "status" -> Some("s_todo"))
      [] profile = "high" ->
             (CASE fieldType = "text" -> Some(TextB)
                [] fieldType = "number" -> Some(2)
                [] fieldType = "date" -> Some(2)
                [] fieldType = "boolean" -> Some(TRUE)
                [] fieldType = "currency" -> Some([amount |-> 2, currency |-> "USD"])
                [] fieldType = "user" -> Some("u2")
                [] fieldType = "select" -> Some("o_crit")
                [] fieldType = "status" -> Some("s_done"))
      [] profile = "met" ->
             (CASE fieldType = "text" -> Some(TextEmpty)
                [] fieldType = "number" -> Some(2)
                [] fieldType = "date" -> Some(2)
                [] fieldType = "boolean" -> Some(TRUE)
                [] fieldType = "currency" -> Some([amount |-> 1, currency |-> "EUR"])
                [] fieldType = "user" -> Some("u3")
                [] fieldType = "select" -> Some("o_low")
                [] fieldType = "status" -> Some("s_closed"))
      [] profile = "nulls" ->
             (CASE fieldType = "user" -> Some("u_gone")
                [] fieldType = "select" -> Some("o_gone")
                [] OTHER -> Null)

\* the Field Value row of a profile: none for "bare"; "low" keeps its text in
\* the alternate slot string_value
profileRow(profile, fieldType) ==
    IF profile = "bare" THEN Null
    ELSE IF profile = "low" /\ fieldType = "text"
         THEN Some([EmptyRow EXCEPT !.string_value = profileValue(profile, fieldType)])
         ELSE Some([EmptyRow EXCEPT ![slotOf(fieldType)] = profileValue(profile, fieldType)])

\* the transition rows of a profile: "low" entered To Do, "high" reached Done
\* two ticks after its first transition, "met" was closed by its first one
profileHistory(profile, ticketId) ==
    LET row(from, to, at) == [ticket_id |-> ticketId, status_field_id |-> "f_status",
                              from_status_id |-> Some(from), to_status_id |-> Some(to),
                              transitioned_at |-> at]
    IN  CASE profile = "low" -> <<row("s_prog", "s_todo", 2)>>
          [] profile = "high" -> <<row("s_todo", "s_prog", 2), row("s_prog", "s_done", 4)>>
          [] profile = "met" -> <<row("s_todo", "s_closed", 3)>>
          [] OTHER -> <<>>

CreatedPatterns == {[m1 |-> 0, m2 |-> 0, m3 |-> 0], [m1 |-> 0, m2 |-> 1, m3 |-> 1],
                    [m1 |-> 1, m2 |-> 0, m3 |-> 1]}

UpdatedPatterns == {[m1 |-> 4, m2 |-> 4, m3 |-> 4], [m1 |-> 5, m2 |-> 4, m3 |-> 5]}

InitSort ==
    /\ InitAux
    /\ now = 6
    /\ \E created \in CreatedPatterns, updated \in UpdatedPatterns :
           ticketing_ticket = [m \in Matters |-> [created_at |-> created[m],
                                                  updated_at |-> updated[m]]]
    /\ \E profile \in [Matters -> Profiles] :
           /\ field_value = [k \in Matters \X FieldIds |->
                                profileRow(profile[k[1]], ticketing_fields[k[2]].field_type)]
           /\ histories = profileHistory(profile["m1"], "m1") \o profileHistory(profile["m2"], "m2")
                              \o profileHistory(profile["m3"], "m3")
    /\ field_value_rows = seededRows(field_value)
    /\ txn = [c \in Clients |-> IdleTxn]
    /\ nUpdates = 0
    /\ listQuery = NoQuery
    /\ listResult = NoResult

NextSort ==
    \/ \E page \in 1..MaxPage, limit \in 1..MaxLimit, sortBy \in SortKeys,
          sortOrder \in {"asc", "desc"} :
           getMatters(page, limit, sortBy, sortOrder, TextEmpty) /\ UNCHANGED <<response, hist>>
    \/ getMatters_respond /\ UNCHANGED <<response, hist>>

SpecSort == InitSort /\ [][NextSort]_vars

(***************************************************************************)
(* Claims.                                                                 *)
(***************************************************************************)

\* C1: on the list path and on the detail path, slaStatus is "In Progress"
\* whenever isInProgress is true, and isInProgress is true exactly when the
\* matter's current status group is not Done (no current status value counts
\* as not Done).
C1_InProgressImpliesSlaInProgress ==
    \A m \in Matters :
        LET l == processCycleTimeData(m)
            d == getMatterById(m)
        IN  /\ l.isInProgress = (current_status_group_name(m) # Some("Done"))
            /\ d.cycleTime.isInProgress = (current_status_group_name(m) # Some("Done"))
            /\ l.isInProgress => l.sla = "In Progress"
            /\ d.cycleTime.isInProgress => d.sla = "In Progress"

\* C2: a matter that is not in progress and has a resolution duration is "Met"
\* exactly when the duration is at most the threshold and "Breached" otherwise,
\* on the list path and on the detail path.
C2_MetIffWithinThreshold ==
    \A m \in Matters :
        LET l == processCycleTimeData(m)
            d == getMatterById(m)
        IN  /\ (~l.isInProgress /\ ~IsNull(l.resolutionTimeMs)) =>
                   l.sla = (IF Val(l.resolutionTimeMs) <= slaThresholdMs THEN "Met" ELSE "Breached")
            /\ (~d.cycleTime.isInProgress /\ ~IsNull(d.cycleTime.resolutionTimeMs)) =>
                   d.sla = (IF Val(d.cycleTime.resolutionTimeMs) <= slaThresholdMs
                            THEN "Met" ELSE "Breached")

\* C3: the calculator's duration follows the three-way case analysis: both
\* timestamps present -> completedAt - startedAt; only startedAt present and in
\* progress -> now - startedAt; otherwise no duration, "N/A" and "In Progress".
C3_DurationCaseAnalysis ==
    \A m \in Matters :
        LET d == getMatterById(m)
            ct == d.cycleTime
        IN  IF ~IsNull(ct.startedAt) /\ ~IsNull(ct.completedAt)
            THEN ct.resolutionTimeMs = Some((Val(ct.completedAt) - Val(ct.startedAt)) * TickMs)
            ELSE IF ~IsNull(ct.startedAt) /\ ct.isInProgress
            THEN ct.resolutionTimeMs = Some((now - Val(ct.startedAt)) * TickMs)
            ELSE /\ IsNull(ct.resolutionTimeMs)
                 /\ ct.resolutionTimeFormatted = "N/A"
                 /\ d.sla = "In Progress"

\* the step in which client c's call commits
Commits(c) == txn[c].pc = "commit" /\ txn'[c].pc = "idle" /\ txn'[c].last = "ok"

\* the step in which client c's call ends with an error
Fails(c) == txn[c].pc # "idle" /\ txn'[c].pc = "idle" /\ txn'[c].last # "ok"

IsPrefix(s, t) == Len(s) <= Len(t) /\ SubSeq(t, 1, Len(s)) = s

rowsOf(log, ticketId) == {i \in 1..Len(log) : log[i].ticket_id = ticketId}

NonDecreasing(log, ticketId) ==
    \A i, j \in rowsOf(log, ticketId) :
        i < j => log[i].transitioned_at <= log[j].transitioned_at

\* C4 (as stated): once completedAt is non-null, no later update changes the
\* completedAt the calculator returns, overlapping transactions included.
C4_CompletedAtNeverChanges ==
    [][\A m \in Matters :
          ~IsNull(completed_at(histories, m)) =>
              completed_at(histories', m) = completed_at(histories, m)]_vars

\* C4 (amended): once completedAt is non-null it stays non-null, and the only
\* step that changes it is the commit of an update of that matter whose
\* transaction began before that completedAt, which moves it back to that
\* begin time; every update begun at or after it leaves it unchanged.
C4_CompletedAtStableForLaterUpdates ==
    [][\A m \in Matters :
          ~IsNull(completed_at(histories, m)) =>
              \/ completed_at(histories', m) = completed_at(histories, m)
              \/ /\ ~IsNull(completed_at(histories', m))
                 /\ \E c \in Clients :
                        /\ Commits(c)
                        /\ txn[c].matterId = m
                        /\ txn[c].started < Val(completed_at(histories, m))
                        /\ completed_at(histories', m) = Some(txn[c].started)]_vars

\* C4 witness: a matter entered Done, left it and entered Done again later,
\* and the calculator still returns the first entry
C4_ReenteredDone ==
    \E i, j, k \in 1..Len(histories) :
        /\ i < j /\ j < k
        /\ histories[i].ticket_id = histories[j].ticket_id
        /\ histories[j].ticket_id = histories[k].ticket_id
        /\ statusGroupNameOf(histories[i].to_status_id) = Some("Done")
        /\ statusGroupNameOf(histories[j].to_status_id) # Some("Done")
        /\ statusGroupNameOf(histories[k].to_status_id) = Some("Done")
        /\ histories[i].transitioned_at < histories[k].transitioned_at
        /\ completed_at(histories, histories[i].ticket_id) = Some(histories[i].transitioned_at)

\* C5 (as stated): the log is append-only, every committed status change adds
\* exactly one row for its matter, and timestamps are non-decreasing in
\* commit order.
C5_ExactlyOneRowPerStatusChange ==
    [][/\ IsPrefix(histories, histories')
       /\ \A c \in Clients :
              (Commits(c) /\ txn[c].fieldType = "status") =>
                  Cardinality(rowsOf(histories', txn[c].matterId))
                      = Cardinality(rowsOf(histories, txn[c].matterId)) + 1
       /\ \A m \in Matters : NonDecreasing(histories', m)]_vars

\* C5 (amended): the log is append-only; a status update buffers a transition
\* row exactly when a Field Value row for (matter, field) existed when it read
\* the current status; its commit appends exactly that row (so none for an
\* update that found no row), stamped with the time its transaction began;
\* no other step touches the log.
C5_AppendOnlyOneRowPerFoundStatus ==
    [][/\ IsPrefix(histories, histories')
       /\ \A c \in Clients :
              (txn[c].pc = "switch" /\ txn'[c].pc = "upsert") =>
                  (~IsNull(txn'[c].pending_history)
                      <=> (txn[c].fieldType = "status"
                           /\ ~IsNull(field_value[<<txn[c].matterId, txn[c].fieldId>>])))
       /\ \A c \in Clients :
              Commits(c) =>
                  IF IsNull(txn[c].pending_history) THEN histories' = histories
                  ELSE /\ Len(histories') = Len(histories) + 1
                       /\ histories'[Len(histories')].ticket_id = txn[c].matterId
                       /\ histories'[Len(histories')].to_status_id = txn[c].value
                       /\ histories'[Len(histories')].transitioned_at = txn[c].started
                       /\ txn[c].started <= now
       /\ (\A c \in Clients : ~Commits(c)) => histories' = histories]_vars

\* C5 witness: one matter has received two transition rows from status updates
C5_TwoRowsLogged ==
    \E m \in Matters : Cardinality(rowsOf(histories, m)) >= 2

\* C6: a call's writes reach the store in one step, all together, at its
\* commit; no other step changes the store; a call that ends with an error
\* leaves the store as it was and reports the error.
C6_UpdateIsAtomic ==
    [][/\ \A c \in Clients :
              Commits(c) =>
                  LET t == txn[c]
                      k == <<t.matterId, t.fieldId>>
                  IN  /\ ~IsNull(field_value'[k])
                      /\ Val(field_value'[k])[t.columnName] = t.value
                      /\ ticketing_ticket'[t.matterId].updated_at = t.started
                      /\ (~IsNull(t.pending_history) =>
                             histories' = Append(histories, Val(t.pending_history)))
       /\ \A c \in Clients :
              Fails(c) => /\ store' = store
                          /\ txn'[c].last \in {"storage_error", "unsupported"}
       /\ (\A c \in Clients : ~Commits(c)) => store' = store]_vars

\* C6 witness: one call has failed after another committed a logged status change
C6_FailedAndCommitted ==
    \E c, d \in Clients :
        /\ txn[c].last = "storage_error"
        /\ txn[d].last = "ok"
        /\ histories # <<>>

SupportedTypes == {"text", "number", "select", "date", "currency", "boolean", "status", "user"}

\* C7: a call with an unrecognized fieldType never gets past the switch: it
\* buffers and writes nothing, and it ends with the unsupported-type error
\* (or an earlier storage error) with the store untouched.
C7_UnsupportedTypeRejectedBeforeWrite ==
    [][\A c \in Clients :
          (txn[c].pc # "idle" /\ txn[c].fieldType \notin SupportedTypes /\ txn'[c] # txn[c]) =>
              /\ txn[c].pc = "switch"
              /\ IsNull(txn[c].pending_history)
              /\ txn'[c].pc = "idle"
              /\ txn'[c].last \in {"unsupported", "storage_error"}
              /\ store' = store]_vars

\* C7 witness: a call with an unrecognized fieldType has been rejected
C7_Rejected ==
    \E c \in Clients : txn[c].last = "unsupported"

\* the stored value a materialized value stands for (ids of structured values)
rawOf(value, field_type) ==
    IF IsNull(value) THEN Null
    ELSE CASE field_type = "status" -> Some(Val(value).statusId)
           [] field_type = "user" -> Some(Val(value).id)
           [] OTHER -> value

\* C8: after a successful update whose fieldType is the field's type, with no
\* other writer, a detail fetch returns the new value for the field and a
\* later updatedAt.
C8_UpdateThenFetchRoundTrip ==
    [][\A c \in Clients, m \in Matters, f \in FieldIds :
          (/\ Commits(c)
           /\ txn[c].matterId = m
           /\ txn[c].fieldId = f
           /\ \A d \in Clients \ {c} : txn[d].pc = "idle"
           /\ txn[c].fieldType = ticketing_fields[f].field_type) =>
              \A v \in {txn[c].value}, before \in {getMatterById(m).updatedAt} :
                  LET n == ticketing_fields[f].name
                      ty == ticketing_fields[f].field_type
                  IN  /\ n \in DOMAIN (getMatterById(m).fields)'
                      /\ rawOf((getMatterById(m).fields)'[n].value, ty) = v
                      /\ (getMatterById(m).updatedAt)' > before]_vars

\* a matter has a value for a field: a Field Value row whose slot is not NULL
\* and, for a reference type, names an existing catalog row
hasValue(ticketId, fieldId) ==
    LET r == field_value[<<ticketId, fieldId>>]
        ty == ticketing_fields[fieldId].field_type
    IN  /\ ~IsNull(r)
        /\ CASE ty = "text" -> ~IsNull(Val(r).text_value) \/ ~IsNull(Val(r).string_value)
             [] ty = "user" -> /\ ~IsNull(Val(r).user_value)
                               /\ Val(Val(r).user_value) \in DOMAIN users
             [] ty = "select" -> /\ ~IsNull(Val(r).select_reference_value_uuid)
                                 /\ Val(Val(r).select_reference_value_uuid)
                                        \in DOMAIN ticketing_field_options
             [] ty = "status" -> /\ ~IsNull(Val(r).status_reference_value_uuid)
                                 /\ Val(Val(r).status_reference_value_uuid)
                                        \in DOMAIN ticketing_field_status_options
             [] OTHER -> ~IsNull(Val(r)[slotOf(ty)])

\* C9: when the list is sorted by a field, of any type and in either
\* direction, every returned matter without a value for that field (no row,
\* NULL slot, unresolvable reference) comes after every returned matter with one.
C9_NullsLastBothDirections ==
    \A f \in FieldIds :
        (listQuery # NoQuery /\ getFieldInfo(listQuery.sortBy) = Some(f)) =>
            \A i, j \in DOMAIN listResult.matters :
                (/\ hasValue(listResult.matters[i], f)
                 /\ ~hasValue(listResult.matters[j], f)) => i < j

\* witness of C9: a descending sort by a field returned a matter with a value
\* ahead of one without
C9_DescWithMissingValue ==
    /\ listQuery # NoQuery
    /\ listQuery.sortOrder = "desc"
    /\ \E f \in FieldIds :
           /\ getFieldInfo(listQuery.sortBy) = Some(f)
           /\ \E i, j \in DOMAIN listResult.matters :
                  /\ i < j
                  /\ hasValue(listResult.matters[i], f)
                  /\ ~hasValue(listResult.matters[j], f)

\* the primary comparison of a sort key: the built-in expression, or the
\* comparison rule of the field's type, each with nulls last; a key that names
\* no field has none
comparisonRule(sortBy) ==
    IF sortBy = "created_at" THEN <<Term("tt.created_at", TRUE)>>
    ELSE IF sortBy = "updated_at" THEN <<Term("tt.updated_at", TRUE)>>
    ELSE IF sortBy = "Resolution Time" THEN <<Term("resolution_time_ms", TRUE)>>
    ELSE IF sortBy = "SLA" THEN <<Term("sla_rank", TRUE)>>
    ELSE IF IsNull(getFieldInfo(sortBy)) THEN <<>>
    ELSE LET ty == ticketing_fields[Val(getFieldInfo(sortBy))].field_type
         IN  CASE ty = "number" -> <<Term("number_value", TRUE)>>
               [] ty = "text" -> <<Term("COALESCE(string_value, text_value)", TRUE)>>
               [] ty = "date" -> <<Term("date_value", TRUE)>>
               [] ty = "boolean" -> <<Term("boolean_value", TRUE)>>
               [] ty = "currency" -> <<Term("currency_value->>amount", TRUE)>>
               [] ty = "user" -> <<Term("u_sort.last_name", TRUE), Term("u_sort.first_name", TRUE)>>
               [] ty = "select" -> <<Term("tfo_sort.sequence", TRUE), Term("tfo_sort.label", TRUE)>>
               [] ty = "status" -> <<Term("tfsg_sort.sequence", TRUE), Term("tfso_sort.sequence", TRUE),
                                     Term("tfso_sort.label", TRUE)>>

\* C10: for every sort key and direction, adjacent returned matters obey the
\* key's comparison rule, and two adjacent matters that tie on it are in
\* creation-timestamp order in the requested direction.
C10_OrderedWithCreatedTieBreak ==
    listQuery # NoQuery =>
        \A i \in 1..(Len(listResult.matters) - 1) :
            LET a == listResult.matters[i]
                b == listResult.matters[i + 1]
                c == clauseCompare(comparisonRule(listQuery.sortBy), listQuery.sortOrder,
                                   listQuery.sortBy, a, b)
            IN  /\ c <= 0
                /\ c = 0 =>
                       IF listQuery.sortOrder = "asc"
                       THEN ticketing_ticket[a].created_at <= ticketing_ticket[b].created_at
                       ELSE ticketing_ticket[a].created_at >= ticketing_ticket[b].created_at

\* C10 for every sort key except updated_at
C10_OrderedExceptUpdatedAt ==
    listQuery.sortBy # "updated_at" => C10_OrderedWithCreatedTieBreak

(***************************************************************************)
(* Paging specification: a caller walks the pages of one list query over   *)
(* an unchanging store.  Every page is a getMatters call of its own.       *)
(***************************************************************************)
PagingProfiles == {"low", "high"}

PagingSearches == {TextEmpty, TextB}

\* totalPages with Math.floor in place of Math.ceil
totalPages_floor(total, limit) == total \div limit

\* Math.ceil(total / limit)
totalPages(total, limit) == (total + limit - 1) \div limit

InitPages ==
    /\ InitAux
    /\ now = 6
    /\ \E created \in CreatedPatterns, updated \in UpdatedPatterns :
           ticketing_ticket = [m \in Matters |-> [created_at |-> created[m],
                                                  updated_at |-> updated[m]]]
    /\ \E profile \in [Matters -> PagingProfiles] :
           /\ field_value = [k \in Matters \X FieldIds |->
                                profileRow(profile[k[1]], ticketing_fields[k[2]].field_type)]
           /\ histories = profileHistory(profile["m1"], "m1") \o profileHistory(profile["m2"], "m2")
                              \o profileHistory(profile["m3"], "m3")
    /\ field_value_rows = seededRows(field_value)
    /\ txn = [c \in Clients |-> IdleTxn]
    /\ nUpdates = 0
    /\ listQuery = NoQuery
    /\ listResult = NoResult

\* the caller asks for page 1 of a query
firstPage(limit, sortBy, sortOrder, search) ==
    /\ scan = NoScan
    /\ getMatters(1, limit, sortBy, sortOrder, search)
    /\ scan' = [query |-> listQuery', pages |-> <<>>]
    /\ UNCHANGED <<response, resolved, calls>>

\* the caller asks for the page after the ones it holds, while totalPages of
\* the last response says there is one
nextPage ==
    /\ scan # NoScan
    /\ Len(scan.pages) >= 1
    /\ Len(scan.pages) < totalPages(scan.pages[Len(scan.pages)].total, scan.query.limit)
    /\ getMatters(Len(scan.pages) + 1, scan.query.limit, scan.query.sortBy,
                  scan.query.sortOrder, scan.query.search)
    /\ UNCHANGED <<response, hist>>

\* the response reaches the caller, who keeps the page
receivePage ==
    /\ scan # NoScan
    /\ scan' = [scan EXCEPT !.pages = Append(@, listResult)]
    /\ getMatters_respond
    /\ UNCHANGED <<response, resolved, calls>>

\* the caller holds pages 1..totalPages
scanComplete ==
    /\ scan # NoScan
    /\ listQuery = NoQuery
    /\ Len(scan.pages) >= 1
    /\ Len(scan.pages) >= totalPages(scan.pages[Len(scan.pages)].total, scan.query.limit)

\* the caller forgets the pages
endScan ==
    /\ scanComplete
    /\ scan' = NoScan
    /\ UNCHANGED <<now, store, txn, nUpdates, listQuery, listResult, ticketing_fields,
                   fieldIdCache, response, resolved, calls>>

NextPages ==
    \/ \E limit \in 1..MaxLimit, sortBy \in SortKeys, sortOrder \in {"asc", "desc"},
          search \in PagingSearches :
           firstPage(limit, sortBy, sortOrder, search)
    \/ nextPage
    \/ receivePage
    \/ endScan

SpecPages == InitPages /\ [][NextPages]_vars

RECURSIVE concatPages(_)
\* the matter ids of the pages, in page order
concatPages(pages) ==
    IF pages = <<>> THEN <<>> ELSE Head(pages).matters \o concatPages(Tail(pages))

\* how many times an id occurs in a sequence of ids
occurrences(ids, m) == Cardinality({i \in 1..Len(ids) : ids[i] = m})

\* C11: once a caller holds pages 1..totalPages of a query over an unchanged
\* store, every matching matter is on them exactly once, no other matter is,
\* and the page sizes sum to total.
C11_StablePagination ==
    scanComplete =>
        LET ids == concatPages(scan.pages)
        IN  /\ \A m \in Matters :
                   occurrences(ids, m) = IF m \in matchingTickets(scan.query.search) THEN 1 ELSE 0
            /\ Len(ids) = scan.pages[1].total

\* C11 for a query whose ORDER BY terms tell every two matching matters apart
C11_StableWhenOrderIsTotal ==
    (/\ scanComplete
     /\ \A a, b \in matchingTickets(scan.query.search) :
            a # b => clauseCompare(buildOrderByClause(scan.query.sortBy), scan.query.sortOrder,
                                   scan.query.sortBy, a, b) # 0)
        => C11_StablePagination

(***************************************************************************)
(* HTTP specification: GET /matters behind validate(getMattersQuerySchema) *)
(* and GET /matters/:id behind validate(matterIdParamsSchema), with the    *)
(* errorHandler installed behind the router.  Query values arrive as       *)
(* strings; the character - has code 65.                                   *)
(***************************************************************************)
SEARCH_MAX_LENGTH == 200

LIMIT_MAX == 100

DEFAULT_LIMIT == 25

isDigit(ch) == ch \in 53..62

RECURSIVE digitsValue(_, _)
\* the number the leading digits of str denote, continuing from acc
digitsValue(str, acc) ==
    IF str = <<>> \/ ~isDigit(Head(str)) THEN acc
    ELSE digitsValue(Tail(str), acc * 10 + (Head(str) - 53))

RECURSIVE skipSpaces(_)
skipSpaces(str) == IF str # <<>> /\ Head(str) = 0 THEN skipSpaces(Tail(str)) ELSE str

\* parseInt(val, 10): leading white space is skipped, a sign is read, then
\* the longest run of digits; Null stands for NaN
parseInt(val) ==
    LET s == skipSpaces(val)
        negative == s # <<>> /\ Head(s) = 65
        digits == IF negative THEN Tail(s) ELSE s
    IN  IF digits = <<>> \/ ~isDigit(Head(digits)) THEN Null
        ELSE Some(IF negative THEN 0 - digitsValue(digits, 0) ELSE digitsValue(digits, 0))

\* .transform((val) => (val ? parseInt(val, 10) : dflt)): an absent or empty
\* string takes the default
transformInt(raw, dflt) ==
    IF IsNull(raw) \/ Val(raw) = <<>> THEN Some(dflt) ELSE parseInt(Val(raw))

\* limit refine without the upper bound
limitRefine_noUpperBound(val) == ~IsNull(val) /\ Val(val) > 0

\* .refine((val) => val > 0 && val <= 100); a comparison with NaN is false
limitRefine(val) == ~IsNull(val) /\ Val(val) > 0 /\ Val(val) <= LIMIT_MAX

\* .refine((val) => val > 0)
pageRefine(val) == ~IsNull(val) /\ Val(val) > 0

\* .default('').transform((val) => val.trim())
transformSearch(raw) == IF IsNull(raw) THEN TextEmpty ELSE trim(Val(raw))

\* getMattersQuerySchema.parse: the fields whose issues the ZodError lists
schemaIssues(query) ==
    {field \in {"page", "limit", "sortBy", "sortOrder", "search"} :
        CASE field = "page" -> ~pageRefine(transformInt(query.page, 1))
          [] field = "limit" -> ~limitRefine(transformInt(query.limit, DEFAULT_LIMIT))
          [] field = "sortBy" -> ~IsNull(query.sortBy) /\ Val(query.sortBy) \notin SORTABLE_FIELDS
          [] field = "sortOrder" -> ~IsNull(query.sortOrder) /\ Val(query.sortOrder) \notin {"asc", "desc"}
          [] field = "search" -> Len(transformSearch(query.search)) > SEARCH_MAX_LENGTH}

\* the parsed query that replaces req.query
parsedQuery(query) ==
    [page |-> Val(transformInt(query.page, 1)),
     limit |-> Val(transformInt(query.limit, DEFAULT_LIMIT)),
     sortBy |-> IF IsNull(query.sortBy) THEN "created_at" ELSE Val(query.sortBy),
     sortOrder |-> IF IsNull(query.sortOrder) THEN "desc" ELSE Val(query.sortOrder),
     search |-> transformSearch(query.search)]

NoRequest == [kind |-> "none"]

\* an exchange whose response has not been sent
Pending(request) == [status |-> 0, error |-> "", details |-> {}, body |-> <<>>,
                     request |-> request]

\* validate: a ZodError is answered with 400 and its issues, next() is not called
ValidationFailed(request, issues) ==
    [status |-> 400, error |-> "Validation failed", details |-> issues, body |-> <<>>,
     request |-> request]

\* errorHandler: whatever is not a ZodError is answered with 500
errorHandler(request, err) ==
    IF err = "ZodError"
    THEN [status |-> 400, error |-> "Validation failed", details |-> {}, body |-> <<>>,
          request |-> request]
    ELSE [status |-> 500, error |-> "Internal server error", details |-> {}, body |-> <<>>,
          request |-> request]

\* GET /matters with a query that fails validation
GET_matters_rejected(query) ==
    /\ response.request = NoRequest
    /\ listQuery = NoQuery
    /\ schemaIssues(query) # {}
    /\ response' = ValidationFailed([kind |-> "list", query |-> query], schemaIssues(query))
    /\ UNCHANGED <<now, store, txn, nUpdates, listQuery, listResult, ticketing_fields,
                   fieldIdCache, hist>>

\* GET /matters with a query that passes validation: the handler runs
GET_matters_accepted(query) ==
    /\ response.request = NoRequest
    /\ schemaIssues(query) = {}
    /\ getMatters(parsedQuery(query).page, parsedQuery(query).limit, parsedQuery(query).sortBy,
                  parsedQuery(query).sortOrder, parsedQuery(query).search)
    /\ response' = Pending([kind |-> "list", query |-> query])
    /\ UNCHANGED hist

\* res.json(result)
GET_matters_respond ==
    /\ response.request # NoRequest
    /\ response' = [status |-> 200, error |-> "", details |-> {}, body |-> listResult.matters,
                    request |-> response.request]
    /\ getMatters_respond
    /\ UNCHANGED hist

\* z.string().uuid(): the ids that have the shape of a uuid
UuidShaped == Matters \cup {"m_absent"}

MatterIdInputs == UuidShaped \cup {"not-a-uuid"}

\* MatterService.getMatterById: null when ticketing_ticket has no such row
findMatterById(id) == IF id \in DOMAIN ticketing_ticket THEN Some(getMatterById(id)) ELSE Null

\* (await getMatterFieldsBatch(client, [matterId]))[matterId] of
\* MatterRepo.getMatterById: undefined (Null) for a matter without a row of
\* ticketing_ticket_field_value, whose id is no key of the batch result
MatterRepo_fields(matterId) ==
    IF \A f \in FieldIds : IsNull(field_value[<<matterId, f>>]) THEN Null
    ELSE Some(getMatterFieldsBatch(matterId))

\* MatterService.getMatterById reads matter.fields['Status']: a TypeError when
\* matter.fields is undefined
getMatterById_throws(matterId) == IsNull(MatterRepo_fields(matterId))

\* GET /matters/:id.  storageFails is a query that throws (connection lost);
\* a thrown error reaches errorHandler
GET_matter_details(id, storageFails) ==
    /\ response.request = NoRequest
    /\ listQuery = NoQuery
    /\ \A c \in Clients : txn[c].pc = "idle"
    /\ LET request == [kind |-> "detail", id |-> id, storageFails |-> storageFails]
       IN  response' =
               IF id \notin UuidShaped THEN ValidationFailed(request, {"id"})
               ELSE IF storageFails THEN errorHandler(request, "Error")
               ELSE IF IsNull(findMatterById(id)) THEN errorHandler(request, "AppError")
               ELSE IF getMatterById_throws(id) THEN errorHandler(request, "TypeError")
               ELSE [status |-> 200, error |-> "", details |-> {},
                     body |-> Val(findMatterById(id)), request |-> request]
    /\ UNCHANGED <<now, store, txn, nUpdates, listQuery, listResult, ticketing_fields,
                   fieldIdCache, hist>>

\* the caller takes the response
receiveResponse ==
    /\ response.status # 0
    /\ response' = Pending(NoRequest)
    /\ UNCHANGED <<now, store, txn, nUpdates, listQuery, listResult, ticketing_fields,
                   fieldIdCache, hist>>

\* the raw values of the query string: "", "0", "1", "2", "-1", "abc"
RawPages == {Null, Some(<<>>), Some(<<53>>), Some(<<54>>), Some(<<55>>), Some(<<65, 54>>),
             Some(<<1, 2, 3>>)}

\* "0", "1", "100", "101", "abc"
RawLimits == {Null, Some(<<53>>), Some(<<54>>), Some(<<54, 53, 53>>), Some(<<54, 53, 54>>),
              Some(<<1, 2, 3>>)}

RawSortBys == {Null, Some("Priority"), Some("updated_at"), Some("Nonexistent")}

RawSortOrders == {Null, Some("asc"), Some("desc"), Some("up")}

\* a blank, a short term, a term of SEARCH_MAX_LENGTH + 1 letters, and a term of
\* SEARCH_MAX_LENGTH letters between two blanks
RawSearches == {Null, Some(<<0>>), Some(TextB),
                Some([i \in 1..(SEARCH_MAX_LENGTH + 1) |-> 1]),
                Some(<<0>> \o [i \in 1..SEARCH_MAX_LENGTH |-> 1] \o <<0>>)}

RawQueries == [page : RawPages, limit : RawLimits, sortBy : RawSortBys,
               sortOrder : RawSortOrders, search : RawSearches]

InitHttp ==
    /\ InitAux
    /\ now = 6
    /\ \E created \in CreatedPatterns :
           ticketing_ticket = [m \in Matters |-> [created_at |-> created[m], updated_at |-> 4]]
    /\ field_value = [k \in Matters \X FieldIds |->
                         profileRow(IF k[1] = "m2" THEN "high" ELSE "low",
                                    ticketing_fields[k[2]].field_type)]
    /\ histories = profileHistory("low", "m1") \o profileHistory("high", "m2")
                       \o profileHistory("low", "m3")
    /\ field_value_rows = seededRows(field_value)
    /\ txn = [c \in Clients |-> IdleTxn]
    /\ nUpdates = 0
    /\ listQuery = NoQuery
    /\ listResult = NoResult

NextHttp ==
    \/ \E query \in RawQueries : GET_matters_rejected(query)
    \/ \E query \in RawQueries : GET_matters_accepted(query)
    \/ GET_matters_respond
    \/ \E id \in MatterIdInputs, storageFails \in BOOLEAN : GET_matter_details(id, storageFails)
    \/ receiveResponse

SpecHttp == InitHttp /\ [][NextHttp]_vars

\* the whole decimal number a string is, if it is one
RECURSIVE allDigits(_)
allDigits(str) == str = <<>> \/ (isDigit(Head(str)) /\ allDigits(Tail(str)))

isNumber(str) ==
    \/ str # <<>> /\ allDigits(str)
    \/ Len(str) > 1 /\ Head(str) = 65 /\ allDigits(Tail(str))

numberOf(str) == IF Head(str) = 65 THEN 0 - digitsValue(Tail(str), 0) ELSE digitsValue(str, 0)

\* the conditions C13 lists, read off the query as sent
pageBelowOne(query) ==
    ~IsNull(query.page) /\ isNumber(Val(query.page)) /\ numberOf(Val(query.page)) < 1

limitOutOfRange(query) ==
    ~IsNull(query.limit) /\ isNumber(Val(query.limit))
        /\ numberOf(Val(query.limit)) \notin 1..LIMIT_MAX

sortByNotAllowed(query) == ~IsNull(query.sortBy) /\ Val(query.sortBy) \notin SORTABLE_FIELDS

sortOrderNotAllowed(query) ==
    ~IsNull(query.sortOrder) /\ Val(query.sortOrder) \notin {"asc", "desc"}

searchTooLong(query) ==
    ~IsNull(query.search) /\ Len(trim(Val(query.search))) > SEARCH_MAX_LENGTH

\* a page or limit that is sent, is not empty and does not start with a number
notNumeric(raw) ==
    ~IsNull(raw) /\ Val(raw) # <<>> /\ ~isNumber(Val(raw))
        /\ LET s == skipSpaces(Val(raw))
           IN  s = <<>> \/ ~(isDigit(Head(s)) \/ (Len(s) > 1 /\ Head(s) = 65 /\ isDigit(s[2])))

isListExchange == response.request.kind = "list" /\ response.status # 0

\* C13 (as stated): a list query is answered 400 with field-level detail and
\* without storage access exactly when page < 1, limit is outside 1..100,
\* sortBy or sortOrder is not an allowed value, or the trimmed search term is
\* longer than 200 characters; every other query passes validation.
C13_RejectedExactlyWhenListed ==
    isListExchange =>
        LET query == response.request.query
            listed == \/ pageBelowOne(query)
                      \/ limitOutOfRange(query)
                      \/ sortByNotAllowed(query)
                      \/ sortOrderNotAllowed(query)
                      \/ searchTooLong(query)
        IN  IF listed
            THEN response.status = 400 /\ response.details # {} /\ listQuery = NoQuery
            ELSE response.status = 200

\* C13 (amended): the same, with a page or limit that does not start with a
\* number rejected too; the details name exactly the offending fields.
C13_RejectedExactlyWhenMalformed ==
    isListExchange =>
        LET query == response.request.query
            offending ==
                {field \in {"page", "limit", "sortBy", "sortOrder", "search"} :
                    \/ field = "page" /\ (pageBelowOne(query) \/ notNumeric(query.page))
                    \/ field = "limit" /\ (limitOutOfRange(query) \/ notNumeric(query.limit))
                    \/ field = "sortBy" /\ sortByNotAllowed(query)
                    \/ field = "sortOrder" /\ sortOrderNotAllowed(query)
                    \/ field = "search" /\ searchTooLong(query)}
        IN  IF offending # {}
            THEN /\ response.status = 400
                 /\ response.error = "Validation failed"
                 /\ response.details = offending
                 /\ listQuery = NoQuery /\ listResult = NoResult
            ELSE response.status = 200

\* C13 witness: a query whose only fault is limit=101 has been rejected
C13_LimitRejected ==
    /\ isListExchange
    /\ response.status = 400
    /\ response.details = {"limit"}
    /\ response.request.query.limit = Some(<<54, 53, 54>>)

\* rows come in creation order, in the given direction
orderedByCreation(rows, sortOrder) ==
    \A i, j \in 1..Len(rows) :
        i < j => IF sortOrder = "asc"
                 THEN ticketing_ticket[rows[i]].created_at <= ticketing_ticket[rows[j]].created_at
                 ELSE ticketing_ticket[rows[i]].created_at >= ticketing_ticket[rows[j]].created_at

\* C12: a list query, otherwise valid, whose sort key is not reserved and does
\* not resolve in ticketing_fields is answered 200, its rows in creation order
\* in the requested direction, by an ORDER BY that only names tt.created_at.
C12_UnknownSortKeySucceeds ==
    (/\ isListExchange
     /\ ~IsNull(response.request.query.sortBy)
     /\ Val(response.request.query.sortBy) \notin ReservedSortKeys
     /\ IsNull(getFieldInfo(Val(response.request.query.sortBy)))
     /\ schemaIssues(response.request.query) \subseteq {"sortBy"})
        => /\ response.status = 200
           /\ buildOrderByClause(Val(response.request.query.sortBy)) = <<CreatedTerm>>
           /\ orderedByCreation(response.body, parsedQuery(response.request.query).sortOrder)

\* C12 inside MatterRepo.getMatters, which validation keeps such a key from
\* reaching: the page is in creation order and nothing else is ordered by
C12_FallbackInsideRepository ==
    (/\ listQuery # NoQuery
     /\ listQuery.sortBy \notin ReservedSortKeys
     /\ IsNull(getFieldInfo(listQuery.sortBy)))
        => /\ buildOrderByClause(listQuery.sortBy) = <<CreatedTerm>>
           /\ orderedByCreation(listResult.matters, listQuery.sortOrder)

\* C14: a detail fetch of a uuid-shaped id that no matter has, with the store
\* answering, is answered 404 'Matter not found', not with the status and
\* message that answer a storage failure.
C14_AbsentMatterIsNotFound ==
    (/\ response.request.kind = "detail"
     /\ response.status # 0
     /\ response.request.id \in UuidShaped
     /\ response.request.id \notin DOMAIN ticketing_ticket
     /\ ~response.request.storageFails)
        => /\ response.status = 404
           /\ response.error = "Matter not found"
           /\ <<response.status, response.error>> #
                  <<errorHandler(response.request, "Error").status,
                    errorHandler(response.request, "Error").error>>

(***************************************************************************)
(* Search specification: getMatters with a search term over the family of  *)
(* stores of the sorting specification.                                    *)
(***************************************************************************)
\* '', two blanks, 'a', 'A', 'b', ' a ', 'a b', 'ab', '1', 'met', 'MET', 'z', '_'
SearchTerms == {TextEmpty, <<0, 0>>, <<1>>, <<27>>, <<2>>, <<0, 1, 0>>, <<1, 0, 2>>, <<1, 2>>,
                <<54>>, <<13, 5, 20>>, <<39, 31, 46>>, <<26>>, <<64>>}

NextSearch ==
    \/ \E page \in 1..MaxPage, limit \in {1, MaxLimit}, sortOrder \in {"asc", "desc"},
          search \in SearchTerms :
           getMatters(page, limit, "created_at", sortOrder, search) /\ UNCHANGED <<response, hist>>
    \/ getMatters_respond /\ UNCHANGED <<response, hist>>

SpecSearch == InitSort /\ [][NextSearch]_vars

lowerText(text) == [i \in 1..Len(text) |-> lowerChar(text[i])]

\* term occurs in text as a run of characters, letter case aside
containsIgnoringCase(text, term) ==
    \E i \in 0..(Len(text) - Len(term)) :
        lowerText(SubSeq(text, i + 1, i + Len(term))) = lowerText(term)

\* the texts C15 lists for one Field Value row of a field of the given type
renderingsOf(row, fieldType) ==
    CASE fieldType = "text" ->
             {Val(v) : v \in {row.text_value, row.string_value} \ {Null}}
      [] fieldType = "number" ->
             {castToText(Val(v)) : v \in {row.number_value} \ {Null}}
      [] fieldType = "status" ->
             {ticketing_field_status_options[Val(v)].label :
                 v \in {w \in {row.status_reference_value_uuid} \ {Null} :
                           Val(w) \in DOMAIN ticketing_field_status_options}}
      [] fieldType = "select" ->
             {ticketing_field_options[Val(v)].label :
                 v \in {w \in {row.select_reference_value_uuid} \ {Null} :
                           Val(w) \in DOMAIN ticketing_field_options}}
      [] fieldType = "user" ->
             UNION {{users[Val(v)].first_name, users[Val(v)].last_name,
                     users[Val(v)].first_name \o <<0>> \o users[Val(v)].last_name} :
                       v \in {w \in {row.user_value} \ {Null} : Val(w) \in DOMAIN users}}
      [] fieldType = "currency" ->
             {castToText(Val(v).amount) : v \in {row.currency_value} \ {Null}}
      [] OTHER -> {}

\* every searchable text of a matter: those of its field values and the SLA
\* label the list shows for it
searchableTexts(ticketId) ==
    UNION {renderingsOf(Val(field_value[<<ticketId, f>>]), ticketing_fields[f].field_type) :
              f \in {g \in FieldIds : ~IsNull(field_value[<<ticketId, g>>])}}
        \cup {slaLabelText(processCycleTimeData(ticketId).sla)}

\* the matters C15 says a term returns
expectedMatches(term) ==
    {m \in Matters : \E text \in searchableTexts(m) : containsIgnoringCase(text, term)}

\* the set of the elements of a sequence
Range(seq) == {seq[i] : i \in 1..Len(seq)}

\* C15: a non-blank search returns a matter exactly when one of its listed
\* texts contains the term, letter case aside; terms that differ only in
\* letter case return the same matters; a term nothing contains returns an
\* empty page and total 0.
C15_SearchReturnsExactlyTheMatches ==
    (listQuery # NoQuery /\ ~searchIsBlank(listQuery.search)) =>
        LET term == trim(listQuery.search)
        IN  /\ listResult.total = Cardinality(expectedMatches(term))
            /\ Range(listResult.matters) \subseteq expectedMatches(term)
            /\ (listQuery.page = 1 /\ listQuery.limit >= Cardinality(Matters))
                   => Range(listResult.matters) = expectedMatches(term)
            /\ \A other \in SearchTerms :
                   lowerText(trim(other)) = lowerText(term)
                       => matchingTickets(other) = matchingTickets(listQuery.search)
            /\ expectedMatches(term) = {}
                   => listResult.matters = <<>> /\ listResult.total = 0

\* the pattern characters of ILIKE
hasWildcard(term) == \E i \in 1..Len(term) : term[i] \in {63, 64}

\* C15 for the terms without % and _
C15_HoldsWithoutWildcards ==
    (listQuery # NoQuery /\ ~hasWildcard(listQuery.search)) => C15_SearchReturnsExactlyTheMatches

\* C16: a query whose search term is empty or only blanks returns what the
\* same query without a search term may return: every matter counted in
\* total, and the same page.
C16_BlankSearchIsNoFilter ==
    (listQuery # NoQuery /\ trim(listQuery.search) = TextEmpty) =>
        /\ listResult.total = Cardinality(Matters)
        /\ listResult \in mattersQuery(listQuery.page, listQuery.limit, listQuery.sortBy,
                                       listQuery.sortOrder, TextEmpty)

\* C16 witness: a term of two blanks, which no text of any matter contains,
\* has been searched for and every matter was counted
C16_BlankTermSearched ==
    /\ listQuery # NoQuery
    /\ listQuery.search = <<0, 0>>
    /\ listResult.total = Cardinality(Matters)
    /\ \A m \in Matters : \A text \in searchableTexts(m) : ~containsIgnoringCase(text, <<0, 0>>)

(***************************************************************************)
(* Catalog specification: list requests sorted by a field name while the   *)
(* rows of ticketing_fields are renamed, retyped and soft-deleted by an    *)
(* administrator.                                                          *)
(***************************************************************************)
\* the fields that change, and the name each is renamed to
RenamedTo == [f_priority |-> "Importance", f_case |-> "Docket"]

CatalogSortKeys == {"Priority", "Case Number", "Importance", "created_at"}

\* UPDATE ticketing_fields SET name = ... WHERE id = f
renameField(f) ==
    /\ ticketing_fields[f].name # RenamedTo[f]
    /\ ticketing_fields' = [ticketing_fields EXCEPT ![f].name = RenamedTo[f]]
    /\ UNCHANGED <<now, store, txn, nUpdates, listQuery, listResult, fieldIdCache, response, hist>>

\* UPDATE ticketing_fields SET field_type = 'text' WHERE id = f
retypeField(f) ==
    /\ ticketing_fields[f].field_type # "text"
    /\ ticketing_fields' = [ticketing_fields EXCEPT ![f].field_type = "text"]
    /\ UNCHANGED <<now, store, txn, nUpdates, listQuery, listResult, fieldIdCache, response, hist>>

\* UPDATE ticketing_fields SET deleted_at = NOW() WHERE id = f
softDeleteField(f) ==
    /\ IsNull(ticketing_fields[f].deleted_at)
    /\ ticketing_fields' = [ticketing_fields EXCEPT ![f].deleted_at = Some(now)]
    /\ UNCHANGED <<now, store, txn, nUpdates, listQuery, listResult, fieldIdCache, response, hist>>

\* a list request sorted by sortBy; the history keeps what the first
\* successful resolve of each name returned
sortedListRequest(sortBy, sortOrder) ==
    /\ getMatters(1, MaxLimit, sortBy, sortOrder, TextEmpty)
    /\ resolved' = IF sortBy \in DOMAIN fieldIdCache' /\ sortBy \notin DOMAIN resolved
                   THEN (sortBy :> fieldIdCache'[sortBy]) @@ resolved
                   ELSE resolved
    /\ UNCHANGED <<response, scan, calls>>

NextCatalog ==
    \/ \E sortBy \in CatalogSortKeys, sortOrder \in {"asc", "desc"} :
           sortedListRequest(sortBy, sortOrder)
    \/ getMatters_respond /\ UNCHANGED <<response, hist>>
    \/ \E f \in DOMAIN RenamedTo : renameField(f)
    \/ \E f \in DOMAIN RenamedTo : retypeField(f)
    \/ \E f \in DOMAIN RenamedTo : softDeleteField(f)

SpecCatalog == InitHttp /\ [][NextCatalog]_vars

\* what the request in progress resolved its sort key to: Null is not-found
resolvedNow == IF listQuery.sortBy \in DOMAIN fieldIdCache
               THEN Some(fieldIdCache[listQuery.sortBy]) ELSE Null

MaxYears == 2

FormatDays == {0, 1, 2, 364} \cup {365 * y + d : y \in 1..MaxYears, d \in {0, 1}}

\* null, a negative duration, and the durations around one second and one minute
MsInputs == {Null, Some(0 - 1), Some(0), Some(1), Some(999), Some(1000), Some(1999),
             Some(59999), Some(60000), Some(61000)}

SecondsInputs == {((d * 24 + h) * 60 + m) * 60 + s :
                     d \in FormatDays, h \in {0, 1, 23}, m \in {0, 1, 59}, s \in {0, 59}}

DurationInputs == {[unit |-> "ms", ms |-> ms, seconds |-> 0] : ms \in MsInputs}
                      \cup {[unit |-> "s", ms |-> Null, seconds |-> s] : s \in SecondsInputs}

InitFormat ==
    /\ InitAux
    /\ now = 1
    /\ ticketing_ticket = [m \in Matters |-> [created_at |-> 0, updated_at |-> 0]]
    /\ field_value = SeedRows
    /\ histories = <<>>
    /\ field_value_rows = seededRows(field_value)
    /\ txn = [c \in Clients |-> IdleTxn]
    /\ nUpdates = 0
    /\ listQuery = NoQuery
    /\ listResult = NoResult

\* the list path formats a duration for the resolutionTime of a row
formatOnListPath(duration, isInProgress) ==
    /\ response.request = NoRequest
    /\ response' =
           [status |-> 200, error |-> "", details |-> {},
            body |-> IF duration.unit = "ms"
                     THEN MatterRepo_formatDuration(duration.ms, isInProgress)
                     ELSE MatterRepo_formatSeconds(duration.seconds, isInProgress),
            request |-> [kind |-> "format", path |-> "list", duration |-> duration,
                         isInProgress |-> isInProgress]]
    /\ UNCHANGED <<now, store, txn, nUpdates, listQuery, listResult, ticketing_fields,
                   fieldIdCache, hist>>

\* the detail path formats a duration for cycleTime.resolutionTimeFormatted
formatOnDetailPath(duration, isInProgress) ==
    /\ response.request = NoRequest
    /\ response' =
           [status |-> 200, error |-> "", details |-> {},
            body |-> IF duration.unit = "ms"
                     THEN formatDuration(duration.ms, isInProgress)
                     ELSE formatSeconds(duration.seconds, isInProgress),
            request |-> [kind |-> "format", path |-> "detail", duration |-> duration,
                         isInProgress |-> isInProgress]]
    /\ UNCHANGED <<now, store, txn, nUpdates, listQuery, listResult, ticketing_fields,
                   fieldIdCache, hist>>

NextFormat ==
    \/ \E duration \in DurationInputs, isInProgress \in BOOLEAN :
           formatOnListPath(duration, isInProgress)
    \/ \E duration \in DurationInputs, isInProgress \in BOOLEAN :
           formatOnDetailPath(duration, isInProgress)
    \/ receiveResponse

SpecFormat == InitFormat /\ [][NextFormat]_vars

\* the rule of C18 for a duration of so many whole seconds
durationRule(seconds) ==
    LET days == seconds \div 86400
        hours == seconds \div 3600
        minutes == seconds \div 60
    IN  IF days > 0
        THEN ToString(days) \o "d"
                 \o (IF hours % 24 # 0 THEN " " \o ToString(hours % 24) \o "h" ELSE "")
        ELSE IF hours > 0
        THEN ToString(hours) \o "h"
                 \o (IF minutes % 60 # 0 THEN " " \o ToString(minutes % 60) \o "m" ELSE "")
        ELSE IF minutes > 0 THEN ToString(minutes) \o "m"
        ELSE ToString(seconds) \o "s"

\* the text C18 prescribes for the formatted request, marker aside
prescribedText(request) ==
    IF request.duration.unit = "ms"
    THEN (IF IsNull(request.duration.ms) \/ Val(request.duration.ms) < 0 THEN "N/A"
          ELSE durationRule(Val(request.duration.ms) \div 1000))
    ELSE durationRule(request.duration.seconds)

isFormatted == response.request.kind = "format" /\ response.status = 200

\* C18: every formatted duration, on the list path and on the detail path,
\* is the text of the one rule (days and hours, hours and minutes, minutes,
\* or seconds; N/A for null or negative), so no unit but d, h, m, s appears.
C18_OneFormattingRule ==
    isFormatted =>
        response.body \in {prescribedText(response.request),
                           "In Progress: " \o prescribedText(response.request)}

\* C18 for the detail path, and for the list path below 365 days
C18_RuleBelowOneYear ==
    (/\ isFormatted
     /\ \/ response.request.path = "detail"
        \/ response.request.duration.unit = "ms"
        \/ response.request.duration.seconds < 365 * 86400)
        => C18_OneFormattingRule

\* C19 for one rendered duration: the marker is there exactly when the duration
\* is ongoing (a start, no completion); a finalized one (a start and a
\* completion) is rendered bare; plain and marked are the two renderings of
\* the duration.
markerRule(cycleTime, plain, marked) ==
    LET ongoing == /\ ~IsNull(cycleTime.resolutionTimeMs)
                   /\ ~IsNull(cycleTime.startedAt)
                   /\ IsNull(cycleTime.completedAt)
        finalized == /\ ~IsNull(cycleTime.startedAt)
                     /\ ~IsNull(cycleTime.completedAt)
    IN  /\ ongoing => cycleTime.resolutionTimeFormatted = marked
        /\ finalized => cycleTime.resolutionTimeFormatted = plain
        /\ (marked # plain /\ cycleTime.resolutionTimeFormatted = marked) => ongoing

\* C19: on the detail path and on the list path the rendered duration carries
\* the in-progress marker exactly when it is ongoing; a finalized duration has
\* none, also when the matter was completed and later reopened.
C19_MarkerIffOngoing ==
    \A m \in Matters :
        /\ LET ct == getMatterById(m).cycleTime
           IN  markerRule(ct, formatDuration(ct.resolutionTimeMs, FALSE),
                          formatDuration(ct.resolutionTimeMs, TRUE))
        /\ LET ct == processCycleTimeData(m)
           IN  markerRule(ct, MatterRepo_formatDuration(ct.resolutionTimeMs, FALSE),
                          MatterRepo_formatDuration(ct.resolutionTimeMs, TRUE))

\* C19 while no matter that entered Done is outside Done and no matter is Done
\* without a transition into Done
C19_MarkerWhenStatusAgreesWithLog ==
    (\A m \in Matters :
         (current_status_group_name(m) = Some("Done")) <=> ~IsNull(completed_at(histories, m)))
        => C19_MarkerIffOngoing

\* a matter that entered Done through its Status field and is in To Do again
\* has its finalized duration rendered with the marker on both paths
C19_ReopenedCarriesMarker ==
    \E m \in Matters :
        /\ ~IsNull(field_value[<<m, "f_status">>])
        /\ current_status_group_name(m) = Some("To Do")
        /\ \E i \in 1..Len(histories) :
               /\ histories[i].ticket_id = m
               /\ histories[i].status_field_id = "f_status"
               /\ histories[i].to_status_id = Some("s_done")
        /\ LET ct == getMatterById(m).cycleTime
           IN  /\ ~IsNull(ct.completedAt)
               /\ ct.resolutionTimeFormatted = formatDuration(ct.resolutionTimeMs, TRUE)
               /\ ct.resolutionTimeFormatted # formatDuration(ct.resolutionTimeMs, FALSE)
        /\ LET ct == processCycleTimeData(m)
           IN  ct.resolutionTimeFormatted = MatterRepo_formatDuration(ct.resolutionTimeMs, TRUE)

\* ---------------------------------------------------------------------------
\* C20: the rows of ticketing_ticket_field_value per (matter, field)
\* ---------------------------------------------------------------------------

Pairs == Matters \X FieldIds

\* C20: after any sequence and any interleaving of updateMatterField calls there
\* is at most one Field Value row per (matter, field) pair, and the pair has a
\* row exactly when it has a value: an update of a pair that has a row takes the
\* DO UPDATE arm, and of two concurrent first updates the second waits for the
\* first and then updates the row the first inserted.
C20_AtMostOneRowPerPair ==
    \A k \in Pairs :
        /\ field_value_rows[k] <= 1
        /\ (field_value_rows[k] = 1) <=> ~IsNull(field_value[k])

\* a pair seeded without a row has got its row from one call, while a second
\* call, begun before that one committed, has waited and taken the DO UPDATE arm
C20_ConcurrentFirstUpdates ==
    \E k \in Pairs : \E d \in Clients :
        /\ IsNull(SeedRows[k])
        /\ field_value_rows[k] = 1
        /\ txn[d].pc \in {"touch", "commit"}
        /\ txn[d].matterId = k[1]
        /\ txn[d].fieldId = k[2]
        /\ txn[d].conflict
        /\ txn[d].started <= ticketing_ticket[k[1]].updated_at

\* ---------------------------------------------------------------------------
\* C21: the populated slots of a Field Value row
\* ---------------------------------------------------------------------------

\* the value columns of a row that are not NULL
populatedSlots(row) == {col \in Columns : ~IsNull(row[col])}

\* the slots a declared type reads its value from: text has two alternate slots
slotsOfType(fieldType) ==
    IF fieldType = "text" THEN {"text_value", "string_value"}
    ELSE {columnNameOf(fieldType)}

\* C21: after any sequence of updateMatterField calls every Field Value row has
\* exactly one populated value slot, and it is a slot of the declared type of
\* the row's field.
C21_OneSlotOfDeclaredType ==
    \A k \in Pairs :
        ~IsNull(field_value[k]) =>
            /\ Cardinality(populatedSlots(Val(field_value[k]))) = 1
            /\ populatedSlots(Val(field_value[k])) \subseteq
                   slotsOfType(ticketing_fields[k[2]].field_type)

(***************************************************************************)
(* Race specification: two clients update status fields, and the calls     *)
(* they begin and commit are recorded in `calls`.                          *)
(***************************************************************************)
RaceInputs == {
    <<"m1", "f_status", "status", Some("s_done")>>,
    <<"m1", "f_status", "status", Some("s_prog")>>,
    <<"m2", "f_status", "status", Some("s_done")>>,
    <<"m2", "f_status", "status", Some("s_todo")>>}

\* the call d is running works on the pair of the call c is running
onSamePair(c, d) ==
    /\ txn[d].pc # "idle"
    /\ txn[d].matterId = txn[c].matterId
    /\ txn[d].fieldId = txn[c].fieldId

\* a call begins: it gets a number, and whether its pair has a row is noted
beginCall(c, matterId, fieldId, fieldType, value) ==
    /\ updateMatterField_begin(c, matterId, fieldId, fieldType, value)
    /\ calls' = [calls EXCEPT !.open[c] =
                    [id |-> nUpdates', hadRow |-> field_value_rows[<<matterId, fieldId>>] > 0]]

\* a call commits: it is noted with the calls on its pair that are still running
commitCall(c) ==
    /\ updateMatterField_commit(c)
    /\ calls' = [calls EXCEPT !.committed = Append(@,
                    [id |-> calls.open[c].id, hadRow |-> calls.open[c].hadRow,
                     matterId |-> txn[c].matterId, fieldId |-> txn[c].fieldId,
                     fieldType |-> txn[c].fieldType, value |-> txn[c].value,
                     started |-> txn[c].started,
                     overlapped |-> {calls.open[d].id : d \in {e \in Clients \ {c} : onSamePair(c, e)}}])]

NextRace ==
    \/ \E c \in Clients, i \in RaceInputs : beginCall(c, i[1], i[2], i[3], i[4])
    \/ \E c \in Clients : updateMatterField_switch(c)
    \/ \E c \in Clients : updateMatterField_upsert(c)
    \/ \E c \in Clients : updateMatterField_touch(c)
    \/ \E c \in Clients : commitCall(c)
    \/ \E c \in Clients : updateMatterField_rollback(c)
    \/ Tick

SpecRace == Init /\ [][NextRace]_vars

\* the statement c is about to run waits for a lock d holds
waitsFor(c, d) ==
    \/ txn[c].pc = "upsert" /\ holdsValueLock(d, txn[c].matterId, txn[c].fieldId)
    \/ txn[c].pc = "touch" /\ holdsTicketLock(d, txn[c].matterId)

\* no call is made to fail by another: no two calls wait for each other
noDeadlock == \A c \in Clients : \A d \in Clients \ {c} : ~(waitsFor(c, d) /\ waitsFor(d, c))

\* the stored value of every pair is the value of the call that committed last
lastCommittedWins ==
    \A i \in 1..Len(calls.committed) :
        LET e == calls.committed[i]
            k == <<e.matterId, e.fieldId>>
        IN  (\A j \in (i+1)..Len(calls.committed) :
                 <<calls.committed[j].matterId, calls.committed[j].fieldId>> # k)
                => /\ ~IsNull(field_value[k])
                   /\ Val(field_value[k])[columnNameOf(e.fieldType)] = e.value

\* the log holds the transition row of a committed status call
transitionLogged(e) ==
    \E n \in 1..Len(histories) :
        /\ histories[n].ticket_id = e.matterId
        /\ histories[n].status_field_id = e.fieldId
        /\ histories[n].to_status_id = e.value
        /\ histories[n].transitioned_at = e.started

\* positions i < j of two committed status calls on one pair that ran concurrently
concurrentStatusCalls ==
    {p \in (1..Len(calls.committed)) \X (1..Len(calls.committed)) :
        /\ p[1] < p[2]
        /\ calls.committed[p[2]].id \in calls.committed[p[1]].overlapped
        /\ calls.committed[p[1]].fieldType = "status"
        /\ calls.committed[p[2]].fieldType = "status"}

MatterService_getMatters ==
    [data |-> listResult.matters, total |-> listResult.total,
     page |-> listQuery.page, limit |-> listQuery.limit,
     totalPages |-> totalPages(listResult.total, listQuery.limit)]

\* the list handler holds the service's result and has not answered yet
listResultPending ==
    /\ response.request.kind = "list"
    /\ response.status = 0
    /\ listQuery # NoQuery

\* the number a page or limit parameter asks for, the default when it is not sent
requested(raw, dflt) == IF IsNull(raw) \/ Val(raw) = <<>> THEN dflt ELSE numberOf(Val(raw))

C24_ListDetailAgree ==
    \A m \in Matters :
        LET list == processCycleTimeData(m)
            detail == getMatterById(m)
        IN  /\ list.sla = detail.sla
            /\ list.isInProgress = detail.cycleTime.isInProgress
            /\ list.startedAt = detail.cycleTime.startedAt
            /\ list.completedAt = detail.cycleTime.completedAt
            /\ list.resolutionTimeFormatted = detail.cycleTime.resolutionTimeFormatted

\* ---------------------------------------------------------------------------
\* C25, C26: the transition log against the stored status
\* ---------------------------------------------------------------------------

\* the positions of the transition rows of one (matter, status field), in commit order
transitionsOf(matterId, fieldId) ==
    SelectSeq([i \in 1..Len(histories) |-> i],
              LAMBDA i : /\ histories[i].ticket_id = matterId
                         /\ histories[i].status_field_id = fieldId)

\* C25: in commit order, the from-status of each transition row is the to-status
\* of the previous transition row of the same matter and field, under every
\* interleaving of concurrent status updates.
C25_TransitionChain ==
    \A k \in Pairs :
        LET rows == transitionsOf(k[1], k[2])
        IN  \A n \in 2..Len(rows) :
                histories[rows[n]].from_status_id = histories[rows[n - 1]].to_status_id

\* the positions of the transition rows of a matter that carry its greatest timestamp
latestTransitions(matterId) ==
    {i \in 1..Len(histories) :
        /\ histories[i].ticket_id = matterId
        /\ \A j \in 1..Len(histories) :
               histories[j].ticket_id = matterId
                   => histories[j].transitioned_at <= histories[i].transitioned_at}

\* the status stored for the field a transition row names
storedStatus(matterId, fieldId) ==
    IF IsNull(field_value[<<matterId, fieldId>>]) THEN Null
    ELSE Val(field_value[<<matterId, fieldId>>]).status_reference_value_uuid

\* C26: once every status update has committed, a matter with a transition row
\* has as its stored status the to-status of a transition row with the greatest
\* timestamp (of any of them, when several rows carry that timestamp).
C26_StatusAgreesWithLatestTransition ==
    (\A c \in Clients : txn[c].pc = "idle") =>
        \A m \in Matters :
            latestTransitions(m) # {} =>
                \E i \in latestTransitions(m) :
                    storedStatus(m, histories[i].status_field_id) = histories[i].to_status_id

(***************************************************************************)
(* Detail specification: GET /matters/:id over the stores of the sorting   *)
(* specification, where a matter may have no Field Value row.              *)
(***************************************************************************)
NextDetail ==
    \/ \E id \in MatterIdInputs, storageFails \in BOOLEAN : GET_matter_details(id, storageFails)
    \/ receiveResponse

SpecDetail == InitSort /\ [][NextDetail]_vars

\* the matter has no row of ticketing_ticket_field_value
hasNoFieldValues(matterId) == \A f \in FieldIds : IsNull(field_value[<<matterId, f>>])

\* a detail request for an existing matter, with the storage available, is answered
detailAnswered ==
    /\ response.request.kind = "detail"
    /\ response.status # 0
    /\ response.request.id \in Matters
    /\ ~response.request.storageFails

\* C27: a detail fetch succeeds for every existing matter whatever the number
\* of its Field Value rows: a matter without field values is returned with an
\* empty field map, isInProgress = true and slaStatus "In Progress".
C27_DetailSucceedsForEveryMatter ==
    detailAnswered =>
        /\ response.status = 200
        /\ hasNoFieldValues(response.request.id) =>
               /\ DOMAIN response.body.fields = {}
               /\ response.body.cycleTime.isInProgress
               /\ response.body.sla = "In Progress"

(***************************************************************************)
(* Text specification: two clients update the text field "subject" and the *)
(* list is fetched sorted by it.                                           *)
(***************************************************************************)
TextInputs == {
    <<"m1", "f_subject", "text", Some(TextA)>>,
    <<"m2", "f_subject", "text", Some(TextB)>>,
    <<"m3", "f_subject", "text", Some(TextEmpty)>>}

NextText ==
    \/ \E c \in Clients, i \in TextInputs :
           updateMatterField_begin(c, i[1], i[2], i[3], i[4]) /\ UNCHANGED calls
    \/ \E c \in Clients : updateMatterField_switch(c)
    \/ \E c \in Clients : updateMatterField_upsert(c)
    \/ \E c \in Clients : updateMatterField_touch(c)
    \/ \E c \in Clients : updateMatterField_commit(c) /\ UNCHANGED calls
    \/ \E c \in Clients : updateMatterField_rollback(c)
    \/ Tick
    \/ \E sortOrder \in {"asc", "desc"} :
           getMatters(1, MaxLimit, "subject", sortOrder, TextEmpty) /\ UNCHANGED <<response, hist>>
    \/ getMatters_respond /\ UNCHANGED <<response, hist>>

SpecText == Init /\ [][NextText]_vars

\* the text the materializer returns for a matter's field, Null without a row
displayedText(matterId, fieldId) ==
    IF IsNull(field_value[<<matterId, fieldId>>]) THEN Null
    ELSE materializedValue(Val(field_value[<<matterId, fieldId>>]), "text")

\* C28: for a text field the value used as the sort key is the value the
\* materializer returns for display, in every reachable store state.
C28_SortKeyIsDisplayedText ==
    \A m \in Matters :
        sortValue("COALESCE(string_value, text_value)", m, "subject")
            = displayedText(m, "f_subject")

\* ---------------------------------------------------------------------------
\* C29: the search term is matched literally
\* ---------------------------------------------------------------------------

\* C29: for every non-blank term, the terms with % or _ included, a matter is
\* returned only if one of its searchable renderings contains the term itself,
\* letter case aside.
C29_TermMatchedLiterally ==
    (listQuery # NoQuery /\ ~searchIsBlank(listQuery.search)) =>
        \A m \in Range(listResult.matters) :
            \E text \in searchableTexts(m) :
                containsIgnoringCase(text, trim(listQuery.search))

\* ---------------------------------------------------------------------------
\* C30: the frame of updateMatterField
\* ---------------------------------------------------------------------------

\* the step is the COMMIT of the call client c is running
commits(c) == txn[c].pc = "commit" /\ txn'[c].pc = "idle" /\ txn'[c].last = "ok"

\* what the commit of call t leaves as it is; the detail path computes a
\* matter's cycle time from its materialized fields' status group, so both are
\* compared, the cycle time for a matter that is Done and for one that is not
frameOf(t) ==
    /\ \A k \in Pairs \ {<<t.matterId, t.fieldId>>} :
           /\ field_value'[k] = field_value[k]
           /\ field_value_rows'[k] = field_value_rows[k]
    /\ \A m \in Matters \ {t.matterId} : ticketing_ticket'[m] = ticketing_ticket[m]
    /\ ticketing_ticket'[t.matterId].created_at = ticketing_ticket[t.matterId].created_at
    /\ \/ histories' = histories
       \/ /\ t.fieldType = "status"
          /\ Len(histories') = Len(histories) + 1
          /\ SubSeq(histories', 1, Len(histories)) = histories
          /\ histories'[Len(histories')].ticket_id = t.matterId
    /\ \A m \in Matters \ {t.matterId} :
           /\ started_at(histories', m) = started_at(histories, m)
           /\ completed_at(histories', m) = completed_at(histories, m)
           /\ first_transition_at(m)' = first_transition_at(m)
           /\ done_transition_at(m)' = done_transition_at(m)
           /\ getMatterFieldsBatch(m)' = getMatterFieldsBatch(m)
           /\ now' = now =>
                  /\ processCycleTimeData(m)' = processCycleTimeData(m)
                  /\ \A g \in {Some("In Progress"), Some("Done")} :
                         calculateCycleTimesAndSLA(m, g)' = calculateCycleTimesAndSLA(m, g)

\* C30: a committed update changes only the Field Value row of its pair, the
\* update timestamp of its matter and, for a status update, appends transition
\* rows of its matter; the other matters' rows, timestamps, transition rows,
\* startedAt, completedAt and slaStatus and the matter's other field values are
\* unchanged, and the steps of a call before its COMMIT change nothing stored.
C30_UpdateFrame ==
    [][/\ \A c \in Clients : commits(c) => frameOf(txn[c])
       /\ (\A c \in Clients : ~commits(c)) => UNCHANGED store]_vars

\* C30 witness: a status update of m1 has committed and logged its transition
\* while another matter has field values and a status of its own
C30_StatusUpdateCommitted ==
    /\ storedStatus("m1", "f_status") # SeedRows[<<"m1", "f_status">>][1].status_reference_value_uuid
    /\ \E i \in 1..Len(histories) : histories[i].ticket_id = "m1"
    /\ \A i \in 1..Len(histories) : histories[i].ticket_id = "m1"
    /\ \A k \in Pairs : k[1] # "m1" => field_value[k] = SeedRows[k]
    /\ ticketing_ticket["m1"].updated_at > 0
    /\ ticketing_ticket["m3"].updated_at = 0

====
